---- MODULE Spec2Model ----
(***************************************************************************)
(* Hostname classification, HA-pair detection, graph building and layered  *)
(* 3D layout of topology-visualizer (config.py,                            *)
(* parsers/enhanced_hostname_parser.py, parsers/visualize_topology.py,     *)
(* generate_3d_topology_enhanced.py).                                      *)
(*                                                                         *)
(* Conventions of the model                                                *)
(*  - A Python str is a sequence of characters; a character is a string    *)
(*    token: the character itself for ASCII ("s", "S", "0", " "), and the  *)
(*    code point name for the non-ASCII characters the model feeds in      *)
(*    ("U+017F" is the long s, "U+0131" the dotless i, "U+212A" the Kelvin *)
(*    sign, "U+0660" the Arabic-Indic digit zero).                         *)
(*  - Python's None is the value None below, which no str equals.          *)
(*  - A Python dict is the sequence of its <<key, value>> items, in        *)
(*    insertion order.                                                     *)
(*  - A float is held in tenths: z-layer 3.5 is 35, HA_PAIR_OFFSET 0.3 is  *)
(*    3, LANE_WIDTH 2.0 is 20 per lane.                                    *)
(*  - A graph is [nodes, attrs, edges]: the node names in insertion order, *)
(*    the dict node -> node_type of the nodes that carry the attribute,    *)
(*    and the edges in insertion order (parallel edges repeat). An edge is *)
(*    a tuple that starts with its two end nodes, <<u, v>>; the graphs the *)
(*    builders make carry <<u, v, key, data>>, data being the record of    *)
(*    the edge's attributes.                                               *)
(*  - A parsed JSON object is a record of the keys it holds; attribute     *)
(*    names and relation labels are TLA+ strings.                          *)
(***************************************************************************)
EXTENDS Integers, Sequences, FiniteSets, TLC

VARIABLES
    registry,     \* config.py's module tables: POSITION_TO_Z_LAYER, POSITION_TO_LANE, TYPE_TO_ICON, DATACENTERS
    parser,       \* the EnhancedHostnameParser object: datacenters, positions, types (its two patterns are built from these)
    np_random,    \* the state of the process-wide random generator
    hash_seed,    \* the str hash seed of this interpreter process: it fixes the iteration order of a set of str
    script,       \* the calls this run makes, in order
    pc,           \* index in script of the next call
    results,      \* the values returned so far, one per call made
    visualizer    \* the NetworkTopologyVisualizer object: its four graphs

vars == <<registry, parser, np_random, hash_seed, script, pc, results, visualizer>>

None == <<"None">>

-----------------------------------------------------------------------------
(* Characters and the str methods parse uses.                              *)

LowerLetters == <<"a","b","c","d","e","f","g","h","i","j","k","l","m",
                  "n","o","p","q","r","s","t","u","v","w","x","y","z">>
UpperLetters == <<"A","B","C","D","E","F","G","H","I","J","K","L","M",
                  "N","O","P","Q","R","S","T","U","V","W","X","Y","Z">>

SeqToSet(s) == { s[i] : i \in 1..Len(s) }

IndexIn(seq, c) == CHOOSE i \in 1..Len(seq) : seq[i] = c
IsIn(seq, c) == \E i \in 1..Len(seq) : seq[i] = c

\* str.lower() of one character: a str, since one character may lower to two.
lower_char(c) ==
    IF IsIn(UpperLetters, c) THEN <<LowerLetters[IndexIn(UpperLetters, c)]>>
    ELSE IF c = "U+212A" THEN <<"k">>
    ELSE IF c = "U+0130" THEN <<"i", "U+0307">>
    ELSE <<c>>

\* str.upper() of one character.
upper_char(c) ==
    IF IsIn(LowerLetters, c) THEN <<UpperLetters[IndexIn(LowerLetters, c)]>>
    ELSE IF c = "U+017F" THEN <<"S">>
    ELSE IF c = "U+0131" THEN <<"I">>
    ELSE <<c>>

RECURSIVE lower(_)
lower(s) == IF s = <<>> THEN <<>> ELSE lower_char(Head(s)) \o lower(Tail(s))

RECURSIVE upper(_)
upper(s) == IF s = <<>> THEN <<>> ELSE upper_char(Head(s)) \o upper(Tail(s))

IsSpace(c) == c \in {" ", "\t", "\n", "\r"}

RECURSIVE lstrip(_)
lstrip(s) == IF s # <<>> /\ IsSpace(Head(s)) THEN lstrip(Tail(s)) ELSE s

RECURSIVE rstrip(_)
rstrip(s) ==
    IF s # <<>> /\ IsSpace(s[Len(s)]) THEN rstrip(SubSeq(s, 1, Len(s) - 1)) ELSE s

strip(s) == rstrip(lstrip(s))

-----------------------------------------------------------------------------
(* The re module, as far as the two patterns use it.                       *)

\* One pattern literal against one character of the text under re.IGNORECASE:
\* the pattern's letters are lower case; besides the letter and its upper case,
\* the Unicode case equivalences of i, s and k match.
CharMatchI(p, c) ==
    \/ c = p
    \/ <<c>> = upper_char(p)
    \/ p = "s" /\ c = "U+017F"
    \/ p = "i" /\ c \in {"U+0131", "U+0130"}
    \/ p = "k" /\ c = "U+212A"

\* \d of a str pattern: any Unicode decimal digit.
IsDigit(c) == c \in {"0","1","2","3","4","5","6","7","8","9","U+0660"}

\* Literal `alt` matches text `s` from index `from` on.
LiteralAt(alt, s, from) ==
    /\ from + Len(alt) - 1 <= Len(s)
    /\ \A n \in 1..Len(alt) : CharMatchI(alt[n], s[from + n - 1])

\* (\d{2})$ from index `from`: two digits, then the end of the text or a
\* newline that ends it.
TwoDigitsToEnd(s, from) ==
    /\ from + 1 <= Len(s)
    /\ IsDigit(s[from]) /\ IsDigit(s[from + 1])
    /\ \/ Len(s) = from + 1
       \/ Len(s) = from + 2 /\ s[from + 2] = "\n"

\* The least triple in the order in which the backtracking matcher tries the
\* alternatives: first group first.
FirstTried(T) ==
    CHOOSE t \in T : \A u \in T :
        \/ t[1] < u[1]
        \/ t[1] = u[1] /\ t[2] < u[2]
        \/ t[1] = u[1] /\ t[2] = u[2] /\ t[3] <= u[3]

\* dict.get(key, default), dict.keys() and `key in dict`.
dict_has(d, k) == \E i \in 1..Len(d) : d[i][1] = k
dict_get(d, k, default) ==
    IF dict_has(d, k) THEN d[CHOOSE i \in 1..Len(d) : d[i][1] = k][2] ELSE default
dict_keys(d) == [i \in 1..Len(d) |-> d[i][1]]

-----------------------------------------------------------------------------
(* config.py: the shipped tables.                                          *)

DATACENTERS ==
    << <<"n","p","c">>, <<"w","p","c">>, <<"a","p","c">>, <<"a","p","d">>,
       <<"u","k","r","c">>, <<"u","k","p","c">>, <<"c","h","2">>,
       <<"v","a","1">>, <<"m","a","5">>, <<"l","d","5">> >>

POSITION_TO_Z_LAYER ==
    << << <<"i","g","w">>, 50 >>, << <<"p","u","b">>, 45 >>,
       << <<"c","o">>, 35 >>,     << <<"d","c">>, 30 >>,
       << <<"d","i">>, 25 >>,     << <<"l","b">>, 20 >>,
       << <<"a","c","c">>, 15 >>, << <<"w","d">>, 10 >>,
       << <<"p","r","v">>, 5 >>,  << <<"c","s","h">>, 0 >> >>

POSITION_TO_LANE ==
    << << <<"i","g","w">>, 0 >>,  << <<"p","u","b">>, 2 >>,
       << <<"c","o">>, 0 >>,      << <<"d","c">>, -2 >>,
       << <<"d","i">>, 0 >>,      << <<"l","b">>, -3 >>,
       << <<"a","c","c">>, 0 >>,  << <<"w","d">>, -5 >>,
       << <<"p","r","v">>, 5 >>,  << <<"c","s","h">>, 8 >> >>

LANE_WIDTH == 20
LANE_MIN == -10
LANE_MAX == 10

\* Each type's icon is held by its 'symbol' alone.
TYPE_TO_ICON ==
    << << <<"s","r">>, "diamond" >>, << <<"s","w">>, "square" >>,
       << <<"f","w">>, "diamond-open" >>, << <<"l","b">>, "circle" >> >>

DEFAULT_ICON == "circle"

HA_PAIR_DETECTION == TRUE
HA_PAIR_OFFSET == 3
SPRING_ITERATIONS == 100
SPRING_SEED == 42
Y_AXIS_SPREAD == 30

ShippedRegistry ==
    [ DATACENTERS |-> DATACENTERS,
      POSITION_TO_Z_LAYER |-> POSITION_TO_Z_LAYER,
      POSITION_TO_LANE |-> POSITION_TO_LANE,
      TYPE_TO_ICON |-> TYPE_TO_ICON ]

Min(a, b) == IF a <= b THEN a ELSE b
Max(a, b) == IF a >= b THEN a ELSE b

get_z_layer(position) == dict_get(registry.POSITION_TO_Z_LAYER, position, 15)

\* get_lane without the clamp.
get_lane_unclamped(position) == dict_get(registry.POSITION_TO_LANE, position, 0)

get_lane(position) ==
    LET lane == dict_get(registry.POSITION_TO_LANE, position, 0)
    IN  Max(LANE_MIN, Min(LANE_MAX, lane))

get_icon_config(device_type) ==
    dict_get(registry.TYPE_TO_ICON, device_type, DEFAULT_ICON)

\* The lane number taken as the x position.
get_lane_x_position_unscaled(lane) == lane

get_lane_x_position(lane) == lane * LANE_WIDTH

\* are_ha_pair that does not compare the positions.
are_ha_pair_position_ignored(device1, device2) ==
    IF ~(device1.valid /\ device2.valid) THEN FALSE
    ELSE /\ device1.datacenter = device2.datacenter
         /\ device1.type = device2.type
         /\ device1.counter # device2.counter

\* config.are_ha_pair, on two parse results.
are_ha_pair(device1, device2) ==
    IF ~(device1.valid /\ device2.valid) THEN FALSE
    ELSE /\ device1.datacenter = device2.datacenter
         /\ device1.position = device2.position
         /\ device1.type = device2.type
         /\ device1.counter # device2.counter

\* validate_config with the lane ranges as its only check.
validate_config_lanes_only ==
    \A i \in 1..Len(registry.POSITION_TO_LANE) :
        /\ LANE_MIN <= registry.POSITION_TO_LANE[i][2]
        /\ registry.POSITION_TO_LANE[i][2] <= LANE_MAX

\* validate_config(): False when the two position tables do not hold the same
\* positions or a lane lies outside [LANE_MIN, LANE_MAX], True otherwise.
validate_config ==
    LET z_positions == SeqToSet(dict_keys(registry.POSITION_TO_Z_LAYER))
        lane_positions == SeqToSet(dict_keys(registry.POSITION_TO_LANE))
        lanes == registry.POSITION_TO_LANE
        errors == \/ z_positions # lane_positions
                  \/ \E i \in 1..Len(lanes) :
                        ~(LANE_MIN <= lanes[i][2] /\ lanes[i][2] <= LANE_MAX)
    IN  ~errors

-----------------------------------------------------------------------------
(* parsers/enhanced_hostname_parser.py: EnhancedHostnameParser.            *)

\* A parser whose pattern also lists a datacenter 'np' and a position 'cco',
\* first among the alternatives.
EnhancedHostnameParser_overlapping(reg) ==
    [ datacenters |-> << <<"n","p">> >> \o reg.DATACENTERS,
      positions   |-> << <<"c","c","o">> >> \o dict_keys(reg.POSITION_TO_Z_LAYER),
      types       |-> dict_keys(reg.TYPE_TO_ICON) ]

\* __init__: the three vocabularies the two patterns are joined from.
EnhancedHostnameParser(reg) ==
    [ datacenters |-> reg.DATACENTERS,
      positions   |-> dict_keys(reg.POSITION_TO_Z_LAYER),
      types       |-> IF reg.TYPE_TO_ICON # <<>>
                      THEN dict_keys(reg.TYPE_TO_ICON)
                      ELSE << <<"s","r">>, <<"s","w">> >> ]

\* self.pattern.match(s).groups(), or None:
\* ^(dc|..)(pos|..)(type|..)(\d{2})$ under re.IGNORECASE.
pattern_match(s) ==
    LET dcs == parser.datacenters
        pos == parser.positions
        tys == parser.types
        \* the alternatives of each group that match where the group starts
        D == { i \in 1..Len(dcs) : LiteralAt(dcs[i], s, 1) }
        P(i) == { j \in 1..Len(pos) : LiteralAt(pos[j], s, 1 + Len(dcs[i])) }
        Y(i, j) == { k \in 1..Len(tys) :
                       /\ LiteralAt(tys[k], s, 1 + Len(dcs[i]) + Len(pos[j]))
                       /\ TwoDigitsToEnd(s, 1 + Len(dcs[i]) + Len(pos[j])
                                              + Len(tys[k])) }
        T == UNION { UNION { { <<i, j, k>> : k \in Y(i, j) } : j \in P(i) } : i \in D }
    IN  IF T = {} THEN None
        ELSE LET t == FirstTried(T)
                 a == Len(dcs[t[1]])
                 b == a + Len(pos[t[2]])
                 c == b + Len(tys[t[3]])
             IN  << SubSeq(s, 1, a), SubSeq(s, a + 1, b),
                    SubSeq(s, b + 1, c), SubSeq(s, c + 1, c + 2) >>

\* self.type_count_pattern.match(s).groups(), or None: ^(type|..)(\d{2})$.
type_count_pattern_match(s) ==
    LET tys == parser.types
        K == { k \in 1..Len(tys) :
                 LiteralAt(tys[k], s, 1) /\ TwoDigitsToEnd(s, 1 + Len(tys[k])) }
    IN  IF K = {} THEN None
        ELSE LET k == CHOOSE k \in K : \A j \in K : k <= j
                 c == Len(tys[k])
             IN  << SubSeq(s, 1, c), SubSeq(s, c + 1, c + 2) >>

\* hostname.strip(), the case kept.
hostname_clean_case_kept(hostname) == strip(hostname)

\* hostname.strip().lower()
hostname_clean(hostname) == lower(strip(hostname))

\* The full result, carrying the hostname as it was matched.
full_result_clean_hostname(hostname, groups) ==
    [ hostname |-> lower(strip(hostname)),
      datacenter |-> groups[1],
      position |-> groups[2],
      type |-> groups[3],
      counter |-> groups[4],
      z_level |-> get_z_layer(groups[2]),
      lane |-> get_lane(groups[2]),
      lane_x |-> get_lane_x_position(get_lane(groups[2])),
      icon_config |-> get_icon_config(groups[3]),
      valid |-> TRUE,
      parse_method |-> "full" ]

\* The full result with the devices numbered 02 one lane to the right.
full_result_lane_by_counter(hostname, groups) ==
    LET lane == get_lane(groups[2]) + (IF groups[4] = <<"0","2">> THEN 1 ELSE 0)
    IN  [ hostname |-> hostname,
          datacenter |-> groups[1],
          position |-> groups[2],
          type |-> groups[3],
          counter |-> groups[4],
          z_level |-> get_z_layer(groups[2]),
          lane |-> lane,
          lane_x |-> get_lane_x_position(lane),
          icon_config |-> get_icon_config(groups[3]),
          valid |-> TRUE,
          parse_method |-> "full" ]

\* The dict parse returns when the full pattern matched with these groups.
full_result(hostname, groups) ==
    [ hostname |-> hostname,
      datacenter |-> groups[1],
      position |-> groups[2],
      type |-> groups[3],
      counter |-> groups[4],
      z_level |-> get_z_layer(groups[2]),
      lane |-> get_lane(groups[2]),
      lane_x |-> get_lane_x_position(get_lane(groups[2])),
      icon_config |-> get_icon_config(groups[3]),
      valid |-> TRUE,
      parse_method |-> "full" ]

\* The type+count result, its z-layer looked up under the type code.
type_count_result_z_of_type(hostname, groups) ==
    [ hostname |-> hostname,
      datacenter |-> None,
      position |-> None,
      type |-> groups[1],
      counter |-> groups[2],
      z_level |-> get_z_layer(groups[1]),
      lane |-> 0,
      lane_x |-> 0,
      icon_config |-> get_icon_config(groups[1]),
      valid |-> TRUE,
      parse_method |-> "type_count" ]

\* The dict parse returns when the type+count pattern matched with these groups.
type_count_result(hostname, groups) ==
    [ hostname |-> hostname,
      datacenter |-> None,
      position |-> None,
      type |-> groups[1],
      counter |-> groups[2],
      z_level |-> 15,
      lane |-> 0,
      lane_x |-> 0,
      icon_config |-> get_icon_config(groups[1]),
      valid |-> TRUE,
      parse_method |-> "type_count" ]

\* The invalid result, placed on the ground layer.
invalid_result_ground(hostname) ==
    [ hostname |-> hostname,
      datacenter |-> None,
      position |-> None,
      type |-> None,
      counter |-> None,
      z_level |-> 0,
      lane |-> 0,
      lane_x |-> 0,
      icon_config |-> get_icon_config(None),
      valid |-> FALSE,
      parse_method |-> "none" ]

\* The dict parse returns when no pattern matched.
invalid_result(hostname) ==
    [ hostname |-> hostname,
      datacenter |-> None,
      position |-> None,
      type |-> None,
      counter |-> None,
      z_level |-> 15,
      lane |-> 0,
      lane_x |-> 0,
      icon_config |-> get_icon_config(None),
      valid |-> FALSE,
      parse_method |-> "none" ]

parse(hostname) ==
    LET clean == hostname_clean(hostname)
        match == pattern_match(clean)
    IN  IF match # None THEN full_result(hostname, match)
        ELSE LET match2 == type_count_pattern_match(clean)
             IN  IF match2 # None THEN type_count_result(hostname, match2)
                 ELSE invalid_result(hostname)

\* are_ha_pair that asks for a datacenter on both sides.
parsed_are_ha_pair_datacenter_required(parsed1, parsed2) ==
    IF ~(parsed1.valid /\ parsed2.valid) THEN FALSE
    ELSE /\ parsed1.datacenter # None
         /\ parsed1.datacenter = parsed2.datacenter
         /\ parsed1.position = parsed2.position
         /\ parsed1.type = parsed2.type
         /\ parsed1.counter # parsed2.counter

\* The test of EnhancedHostnameParser.are_ha_pair on its two parse results.
parsed_are_ha_pair(parsed1, parsed2) ==
    IF ~(parsed1.valid /\ parsed2.valid) THEN FALSE
    ELSE /\ parsed1.datacenter = parsed2.datacenter
         /\ parsed1.position = parsed2.position
         /\ parsed1.type = parsed2.type
         /\ parsed1.counter # parsed2.counter

\* EnhancedHostnameParser.are_ha_pair, on two hostnames.
parser_are_ha_pair(hostname1, hostname2) ==
    parsed_are_ha_pair(parse(hostname1), parse(hostname2))

\* The characters of the model in code point order: the order of str's `<`.
CharOrder ==
    <<"\t", "\n", "\r", " ", "-">>
    \o <<"0","1","2","3","4","5","6","7","8","9">>
    \o UpperLetters \o LowerLetters
    \o <<"U+0130", "U+0131", "U+017F", "U+0307", "U+0660", "U+212A">>

ord(c) == IndexIn(CharOrder, c)

\* a < b on str: the first differing character decides, a proper prefix is less.
str_lt(a, b) ==
    \E k \in 1..(Min(Len(a), Len(b)) + 1) :
        /\ \A n \in 1..(k - 1) : a[n] = b[n]
        /\ \/ k > Len(a) /\ k <= Len(b)
           \/ k <= Len(a) /\ k <= Len(b) /\ ord(a[k]) < ord(b[k])

RECURSIVE insert_sorted(_, _)
insert_sorted(x, s) ==
    IF s = <<>> THEN <<x>>
    ELSE IF str_lt(x, Head(s)) THEN <<x>> \o s
    ELSE <<Head(s)>> \o insert_sorted(x, Tail(s))

\* sorted(list of str).
RECURSIVE sorted(_)
sorted(s) ==
    IF s = <<>> THEN <<>>
    ELSE insert_sorted(s[Len(s)], sorted(SubSeq(s, 1, Len(s) - 1)))

\* The loops with the inner one over every other index, before i and after.
RECURSIVE ha_scan_both_orders(_, _, _)
ha_scan_both_orders(hs, i, j) ==
    IF i > Len(hs) THEN <<>>
    ELSE IF j > Len(hs) THEN ha_scan_both_orders(hs, i + 1, 1)
    ELSE (IF i # j /\ parser_are_ha_pair(hs[i], hs[j])
          THEN << <<hs[i], hs[j]>> >> ELSE <<>>)
         \o ha_scan_both_orders(hs, i, j + 1)

\* The loops with the inner one stopping at the neighbour of i.
RECURSIVE ha_scan_neighbours(_, _, _)
ha_scan_neighbours(hs, i, j) ==
    IF i > Len(hs) THEN <<>>
    ELSE IF j > Min(i + 1, Len(hs)) THEN ha_scan_neighbours(hs, i + 1, i + 2)
    ELSE (IF parser_are_ha_pair(hs[i], hs[j]) THEN << <<hs[i], hs[j]>> >> ELSE <<>>)
         \o ha_scan_neighbours(hs, i, j + 1)

\* The two loops of find_ha_pairs over the sorted list, from (i, j) on.
RECURSIVE ha_scan(_, _, _)
ha_scan(hs, i, j) ==
    IF i > Len(hs) THEN <<>>
    ELSE IF j > Len(hs) THEN ha_scan(hs, i + 1, i + 2)
    ELSE (IF parser_are_ha_pair(hs[i], hs[j]) THEN << <<hs[i], hs[j]>> >> ELSE <<>>)
         \o ha_scan(hs, i, j + 1)

find_ha_pairs(hostnames) == ha_scan(sorted(hostnames), 1, 2)

\* group_by_datacenter's loop body with the hosts of no datacenter left out.
group_add_classified_only(grouped, hostname) ==
    LET dc == parse(hostname).datacenter
    IN  IF dc = None \/ dc = <<>> THEN grouped
        ELSE IF dict_has(grouped, dc)
        THEN [ i \in 1..Len(grouped) |->
                 IF grouped[i][1] = dc
                 THEN <<dc, Append(grouped[i][2], hostname)>> ELSE grouped[i] ]
        ELSE Append(grouped, <<dc, <<hostname>> >>)

\* group_by_datacenter's loop body: the hostname is appended to the list of
\* its datacenter, or of 'unknown' when parse gives None (or '').
group_add(grouped, hostname) ==
    LET datacenter == parse(hostname).datacenter
        dc == IF datacenter = None \/ datacenter = <<>>
              THEN <<"u","n","k","n","o","w","n">> ELSE datacenter
    IN  IF dict_has(grouped, dc)
        THEN [ i \in 1..Len(grouped) |->
                 IF grouped[i][1] = dc
                 THEN <<dc, Append(grouped[i][2], hostname)>> ELSE grouped[i] ]
        ELSE Append(grouped, <<dc, <<hostname>> >>)

RECURSIVE group_loop(_, _, _)
group_loop(grouped, hostnames, i) ==
    IF i > Len(hostnames) THEN grouped
    ELSE group_loop(group_add(grouped, hostnames[i]), hostnames, i + 1)

\* group_by_datacenter(hostnames): the dict datacenter -> list of hostnames, in
\* the order the keys were first met.
group_by_datacenter(hostnames) == group_loop(<<>>, hostnames, 1)

-----------------------------------------------------------------------------
(* generate_3d_topology_enhanced.py: create_enhanced_3d_layout, with the   *)
(* enhanced parser imported (USE_ENHANCED).                                *)

unknown == <<"u","n","k","n","o","w","n">>

legacy_z_map ==
    << << <<"r","o","u","t","e","r">>, 40 >>,
       << <<"c","o","r","e">>, 35 >>,
       << <<"d","i","s","t","r","i","b","u","t","i","o","n">>, 25 >>,
       << <<"a","c","c","e","s","s">>, 15 >> >>

\* The fallback taken by every node that carries a node_type, parsed or not.
legacy_fallback_node_type_first(graph, node, parsed) ==
    IF parsed.valid /\ ~dict_has(graph.attrs, node) THEN parsed
    ELSE LET node_type == dict_get(graph.attrs, node, unknown)
         IN  [ hostname |-> node,
               datacenter |-> None,
               position |-> node_type,
               type |-> node_type,
               counter |-> None,
               z_level |-> dict_get(legacy_z_map, node_type, 15),
               lane |-> 0,
               lane_x |-> get_lane_x_position(0),
               icon_config |-> "circle",
               valid |-> TRUE,
               parse_method |-> "legacy" ]

\* Lines 132-151: a parse result that is not valid is replaced by the legacy
\* result built from the node_type attribute.
legacy_fallback(graph, node, parsed) ==
    IF parsed.valid THEN parsed
    ELSE LET node_type == dict_get(graph.attrs, node, unknown)
         IN  [ hostname |-> node,
               datacenter |-> None,
               position |-> node_type,
               type |-> node_type,
               counter |-> None,
               z_level |-> dict_get(legacy_z_map, node_type, 15),
               lane |-> 0,
               lane_x |-> get_lane_x_position(0),
               icon_config |-> "circle",
               valid |-> TRUE,
               parse_method |-> "legacy" ]

\* The loop body up to the filter: parse the node, fall back when that fails.
classify_node(graph, node) == legacy_fallback(graph, node, parse(node))

\* bool(x) of a str or None.
truthy(x) == x # None /\ x # <<>>

\* The filter, skipping every node the parser did not classify as well.
in_scope_parsed_only(parsed, datacenter_filter) ==
    /\ parsed.parse_method # "legacy"
    /\ ~(truthy(datacenter_filter) /\ parsed.datacenter # datacenter_filter)

\* The filter, letting through every node without a datacenter.
in_scope_or_no_datacenter(parsed, datacenter_filter) ==
    \/ parsed.datacenter = None
    \/ ~(truthy(datacenter_filter) /\ parsed.datacenter # datacenter_filter)

\* The node is kept: not (datacenter_filter and parsed['datacenter'] != datacenter_filter).
in_scope(parsed, datacenter_filter) ==
    ~(truthy(datacenter_filter) /\ parsed.datacenter # datacenter_filter)

\* Lines 153-167: the node_info entry of a node the filter keeps, nothing for
\* a node it skips.
node_info_entry(node, parsed, datacenter_filter) ==
    IF in_scope(parsed, datacenter_filter)
    THEN << [ node |-> node, z |-> parsed.z_level, lane |-> parsed.lane,
              lane_x |-> parsed.lane_x, parsed |-> parsed ] >>
    ELSE <<>>

\* node_info of the nodes kept, in the order of graph.nodes(), from node i on.
RECURSIVE node_info(_, _, _)
node_info(graph, datacenter_filter, i) ==
    IF i > Len(graph.nodes) THEN <<>>
    ELSE node_info_entry(graph.nodes[i], classify_node(graph, graph.nodes[i]),
                         datacenter_filter)
         \o node_info(graph, datacenter_filter, i + 1)

\* sorted(keys, reverse=True) of a set of numbers.
RECURSIVE sorted_reverse(_)
sorted_reverse(S) ==
    IF S = {} THEN <<>>
    ELSE LET m == CHOOSE x \in S : \A y \in S : y <= x
         IN  <<m>> \o sorted_reverse(S \ {m})

\* The keys of a dict filled in this order: each value at its first occurrence.
NoRepeatsIn(l) == \A i \in 1..Len(l), j \in 1..Len(l) : l[i] = l[j] => i = j

RECURSIVE insertion_order(_)
insertion_order(values) ==
    IF values = <<>> THEN <<>>
    ELSE LET rest == insertion_order(SubSeq(values, 1, Len(values) - 1))
             last == values[Len(values)]
         IN  IF \E i \in 1..Len(rest) : rest[i] = last THEN rest
             ELSE Append(rest, last)

\* The entries of node_info on layer z, and the lanes of that layer in the
\* order nodes_by_layer_lane[z] received them.
in_layer(info, z) == LET Is(e) == e.z = z IN SelectSeq(info, Is)

lanes_of_layer(info, z) ==
    LET members == in_layer(info, z)
    IN  insertion_order([ i \in 1..Len(members) |-> members[i].lane ])

\* nodes_by_layer_lane[z][lane]
nodes_in_lane(info, z, lane) ==
    LET Is(e) == e.lane = lane
        members == SelectSeq(in_layer(info, z), Is)
    IN  [ i \in 1..Len(members) |-> members[i].node ]

\* The buckets [z, lane, nodes] from lane li of layer zi on, as the loops of
\* lines 177-180 walk them.
RECURSIVE walk_buckets(_, _, _, _)
walk_buckets(info, layers, zi, li) ==
    IF zi > Len(layers) THEN <<>>
    ELSE LET lanes == lanes_of_layer(info, layers[zi])
         IN  IF li > Len(lanes) THEN walk_buckets(info, layers, zi + 1, 1)
             ELSE << [ z |-> layers[zi], lane |-> lanes[li],
                       nodes |-> nodes_in_lane(info, layers[zi], lanes[li]) ] >>
                  \o walk_buckets(info, layers, zi, li + 1)

\* nodes_by_layer_lane in placement order: z descending, the lanes of a layer
\* in insertion order.
nodes_by_layer_lane(info) ==
    walk_buckets(info, sorted_reverse({ info[i].z : i \in 1..Len(info) }), 1, 1)

Reverse(s) == [ i \in 1..Len(s) |-> s[Len(s) + 1 - i] ]

\* graph.subgraph(nodes): the induced view. networkx keeps the chosen nodes in
\* a set and iterates that set when it holds fewer than half of the graph's
\* nodes, the graph's own order otherwise; the order of a set of str is fixed
\* by the hash seed of the process.
subgraph(graph, nodes) ==
    LET InNodes(v) == \E i \in 1..Len(nodes) : nodes[i] = v
        Induced(e) == InNodes(e[1]) /\ InNodes(e[2])
    IN  [ nodes |-> IF 2 * Len(nodes) < Len(graph.nodes) /\ hash_seed # 0
                    THEN Reverse(nodes)
                    ELSE SelectSeq(graph.nodes, InNodes),
          attrs |-> SelectSeq(graph.attrs, LAMBDA a : InNodes(a[1])),
          edges |-> SelectSeq(graph.edges, Induced) ]

\* The n-th number of the random stream that starts in this state, in tenths.
rand(state, n) == (((state + n) * 37 + 11) % 21) - 10

\* seed=None at the call of spring_layout.
seed_argument_none == {}

\* The seed argument of the call of spring_layout: {s} for seed=s, {} for None.
seed_argument == {SPRING_SEED}

\* nx.spring_layout(G, dim=2, k=k, iterations=iterations, seed=seed), by its
\* interface: the random stream is a fresh one started from an int seed and the
\* process-wide one for seed=None; node i of G starts at the next two numbers
\* of the stream; the result is a function of those, of the edges, k and
\* iterations. Returns pos and the state the process-wide stream is left in.
spring_layout(G, k, iterations, seed) ==
    LET n == Len(G.nodes)
        start == IF seed = {} THEN np_random ELSE CHOOSE s \in seed : TRUE
        index(v) == CHOOSE i \in 1..n : G.nodes[i] = v
        Touches(v) == LET Is(e) == e[1] = v \/ e[2] = v IN Len(SelectSeq(G.edges, Is))
    IN  [ pos |-> [ v \in SeqToSet(G.nodes) |->
                      << rand(start, 2 * index(v) - 1) - Touches(v),
                         rand(start, 2 * index(v)) + Touches(v) >> ],
          np_random |-> IF seed = {} THEN np_random + 2 * n
                        ELSE np_random ]

\* One bucket placed with spring_layout whatever its size.
place_bucket_always_spring(graph, bucket, st) ==
    LET nodes == bucket.nodes
        base_x == get_lane_x_position(bucket.lane)
        laid == spring_layout(subgraph(graph, nodes), Y_AXIS_SPREAD,
                              SPRING_ITERATIONS, seed_argument)
        placed == [ v \in SeqToSet(nodes) |->
                      << base_x, (laid.pos[v][2] * Y_AXIS_SPREAD) \div 10, bucket.z >> ]
    IN  [ pos_3d |-> placed @@ st.pos_3d,
          np_random |-> laid.np_random,
          keys |-> st.keys \o nodes ]

\* One bucket placed (lines 181-206): a single node at the lane centre, more
\* than one along y by spring_layout. st is [pos_3d, its keys in insertion
\* order, np_random].
place_bucket(graph, bucket, st) ==
    LET nodes == bucket.nodes
        base_x == get_lane_x_position(bucket.lane)
    IN  IF Len(nodes) = 1
        THEN [ st EXCEPT !.pos_3d = (nodes[1] :> <<base_x, 0, bucket.z>>) @@ @,
                         !.keys = Append(@, nodes[1]) ]
        ELSE LET laid == spring_layout(subgraph(graph, nodes), Y_AXIS_SPREAD,
                                       SPRING_ITERATIONS, seed_argument)
                 placed == [ v \in SeqToSet(nodes) |->
                               << base_x, (laid.pos[v][2] * Y_AXIS_SPREAD) \div 10,
                                  bucket.z >> ]
             IN  [ pos_3d |-> placed @@ st.pos_3d,
                   np_random |-> laid.np_random,
                   keys |-> st.keys \o nodes ]

\* The offsets with only the second of each pair moved.
RECURSIVE offset_ha_pairs_second_only(_, _)
offset_ha_pairs_second_only(pos_3d, ha_pairs) ==
    IF ha_pairs = <<>> THEN pos_3d
    ELSE LET h2 == ha_pairs[1][2]
             p2 == pos_3d[h2]
         IN  offset_ha_pairs_second_only(
                 [ pos_3d EXCEPT ![h2] = <<p2[1], p2[2] + HA_PAIR_OFFSET, p2[3]>> ],
                 Tail(ha_pairs))

\* Lines 208-218: each pair found moves h1 down and h2 up the y axis.
RECURSIVE offset_ha_pairs(_, _)
offset_ha_pairs(pos_3d, ha_pairs) ==
    IF ha_pairs = <<>> THEN pos_3d
    ELSE LET h1 == ha_pairs[1][1]
             h2 == ha_pairs[1][2]
             p1 == pos_3d[h1]
             p2 == pos_3d[h2]
         IN  offset_ha_pairs(
                 [ pos_3d EXCEPT ![h1] = <<p1[1], p1[2] - HA_PAIR_OFFSET, p1[3]>>,
                                 ![h2] = <<p2[1], p2[2] + HA_PAIR_OFFSET, p2[3]>> ],
                 Tail(ha_pairs))

\* The placement loops over the buckets, from bucket b on.
RECURSIVE place_buckets(_, _, _, _)
place_buckets(graph, buckets, b, st) ==
    IF b > Len(buckets) THEN st
    ELSE place_buckets(graph, buckets, b + 1, place_bucket(graph, buckets[b], st))

\* Lines 208-218 on the placed nodes: the offsets of the pairs found among
\* list(pos_3d.keys()).
handle_ha_pairs(placed) ==
    [ pos_3d |-> IF HA_PAIR_DETECTION
                 THEN offset_ha_pairs(placed.pos_3d, find_ha_pairs(placed.keys))
                 ELSE placed.pos_3d,
      np_random |-> placed.np_random ]

\* create_enhanced_3d_layout(graph, datacenter_filter): pos_3d, and the state
\* it leaves the process-wide random stream in.
create_enhanced_3d_layout(graph, datacenter_filter) ==
    handle_ha_pairs(
        place_buckets(graph,
                      nodes_by_layer_lane(node_info(graph, datacenter_filter, 1)), 1,
                      [ pos_3d |-> <<>>, np_random |-> np_random, keys |-> <<>> ]))

-----------------------------------------------------------------------------
(* networkx, by its interface: Graph, DiGraph and MultiGraph with add_node *)
(* and add_edge.                                                           *)

\* dict.get(field) on a parsed JSON object: the value, or None.
get(obj, field) == IF field \in DOMAIN obj THEN obj[field] ELSE None

\* d[k] = v
dict_set(d, k, v) ==
    IF dict_has(d, k)
    THEN [ i \in 1..Len(d) |-> IF d[i][1] = k THEN <<k, v>> ELSE d[i] ]
    ELSE Append(d, <<k, v>>)

\* nx.Graph(), nx.DiGraph(): without nodes and edges.
Graph == [ kind |-> "Graph", nodes |-> <<>>, attrs |-> <<>>, edges |-> <<>> ]

DiGraph == [ kind |-> "DiGraph", nodes |-> <<>>, attrs |-> <<>>, edges |-> <<>> ]

\* A combined graph that holds one edge per pair of nodes.
MultiGraph_single_edge == Graph

\* nx.MultiGraph()
MultiGraph == [ kind |-> "MultiGraph", nodes |-> <<>>, attrs |-> <<>>, edges |-> <<>> ]

\* G.add_node(n, node_type=node_type): the node is added if new, its
\* attribute set in either case.
add_node(G, n, node_type) ==
    [ G EXCEPT !.nodes = IF IsIn(@, n) THEN @ ELSE Append(@, n),
               !.attrs = dict_set(@, n, node_type) ]

\* The edge e of G runs between u and v: in that direction in a DiGraph, in
\* either in the others.
joins(G, e, u, v) ==
    \/ e[1] = u /\ e[2] = v
    \/ G.kind # "DiGraph" /\ e[1] = v /\ e[2] = u

\* MultiGraph.new_edge_key(u, v): the number of edges between u and v, raised
\* until it is no key of one of them.
new_edge_key(G, u, v) ==
    LET keys == { G.edges[i][3] : i \in { j \in 1..Len(G.edges) : joins(G, G.edges[j], u, v) } }
        n == Cardinality(keys)
    IN  CHOOSE k \in n..(2 * n) : k \notin keys /\ \A j \in n..(k - 1) : j \in keys

\* datadict.update(attr)
update(datadict, attr) ==
    [ f \in DOMAIN datadict \cup DOMAIN attr |->
        IF f \in DOMAIN attr THEN attr[f] ELSE datadict[f] ]

\* add_edge that leaves out an edge with an end that is no node yet.
add_edge_between_nodes(G, u, v, key, attr) ==
    IF ~(IsIn(G.nodes, u) /\ IsIn(G.nodes, v)) THEN G
    ELSE LET k == IF G.kind # "MultiGraph" THEN 0
                  ELSE IF key = {} THEN new_edge_key(G, u, v)
                  ELSE CHOOSE x \in key : TRUE
         IN  [ G EXCEPT !.edges = Append(@, <<u, v, k, attr>>) ]

\* G.add_edge(u, v, key=key, **attr); key is {} when none is given (as always
\* for a Graph and a DiGraph) and {k} for key=k. The end nodes are added when
\* new; an edge between them with this key has its attributes updated, and
\* a new edge is added otherwise.
add_edge(G, u, v, key, attr) ==
    LET with_u == IF IsIn(G.nodes, u) THEN G.nodes ELSE Append(G.nodes, u)
        k == IF G.kind # "MultiGraph" THEN 0
             ELSE IF key = {} THEN new_edge_key(G, u, v)
             ELSE CHOOSE x \in key : TRUE
        hit(e) == joins(G, e, u, v) /\ e[3] = k
    IN  [ G EXCEPT
            !.nodes = IF IsIn(with_u, v) THEN with_u ELSE Append(with_u, v),
            !.edges = IF \E i \in 1..Len(@) : hit(@[i])
                      THEN [ i \in 1..Len(@) |->
                               IF hit(@[i])
                               THEN <<@[i][1], @[i][2], k, update(@[i][4], attr)>>
                               ELSE @[i] ]
                      ELSE Append(@, <<u, v, k, attr>>) ]

-----------------------------------------------------------------------------
(* generate_3d_topology_enhanced.py: load_topology_data and the head of    *)
(* visualize_3d_topology_enhanced. files is what OUTPUT_DIR holds: a       *)
(* record with the parsed JSON of cdp_topology.json, hsrp_topology.json    *)
(* and bgp_topology.json under cdp, hsrp and bgp, a file that does not     *)
(* exist having no field.                                                  *)

\* Lines 62-67
new_graphs ==
    [ physical |-> Graph, hsrp |-> Graph, bgp |-> DiGraph, combined |-> MultiGraph ]

\* (OUTPUT_DIR / name).exists()
exists(files, name) == name \in DOMAIN files

\* Lines 74-76: every node of the physical file goes into all four graphs.
load_physical_nodes(graphs, nodes) ==
    LET added[i \in 0..Len(nodes)] ==
            IF i = 0 THEN graphs
            ELSE [ g \in DOMAIN graphs |->
                     add_node(added[i - 1][g], nodes[i].name, nodes[i].type) ]
    IN  added[Len(nodes)]

\* Lines 77-79
load_physical_edges(graphs, edges) ==
    LET added[i \in 0..Len(edges)] ==
            IF i = 0 THEN graphs
            ELSE [ added[i - 1] EXCEPT
                     !.physical = add_edge(@, edges[i].source, edges[i].target, {},
                                           [ link_type |-> "physical" ]),
                     !.combined = add_edge(@, edges[i].source, edges[i].target, {},
                                           [ link_type |-> "physical" ]) ]
    IN  added[Len(edges)]

\* Lines 86-90
load_hsrp_edges(graphs, edges) ==
    LET added[i \in 0..Len(edges)] ==
            IF i = 0 THEN graphs
            ELSE [ added[i - 1] EXCEPT
                     !.hsrp = add_edge(@, edges[i].source, edges[i].target, {},
                                       [ link_type |-> "hsrp",
                                         group |-> get(edges[i], "group") ]),
                     !.combined = add_edge(@, edges[i].source, edges[i].target, {},
                                           [ link_type |-> "hsrp",
                                             group |-> get(edges[i], "group") ]) ]
    IN  added[Len(edges)]

\* Lines 97-103
load_bgp_edges(graphs, edges) ==
    LET added[i \in 0..Len(edges)] ==
            IF i = 0 THEN graphs
            ELSE [ added[i - 1] EXCEPT
                     !.bgp = add_edge(@, edges[i].source, edges[i].target, {},
                                      [ link_type |-> "bgp",
                                        peering_type |-> get(edges[i], "type") ]),
                     !.combined = add_edge(@, edges[i].source, edges[i].target, {},
                                           [ link_type |-> "bgp",
                                             peering_type |-> get(edges[i], "type") ]) ]
    IN  added[Len(edges)]

\* The BGP part of the load, treating a missing file as the end of the
\* topology: nothing is kept.
load_bgp_file_required(graphs, files) ==
    IF exists(files, "bgp") THEN load_bgp_edges(graphs, files.bgp.edges)
    ELSE new_graphs

\* Lines 69-79, 82-90, 93-103: a file is read when it exists.
load_physical_file(graphs, files) ==
    IF exists(files, "cdp")
    THEN load_physical_edges(load_physical_nodes(graphs, files.cdp.nodes),
                             files.cdp.edges)
    ELSE graphs

load_hsrp_file(graphs, files) ==
    IF exists(files, "hsrp") THEN load_hsrp_edges(graphs, files.hsrp.edges)
    ELSE graphs

load_bgp_file(graphs, files) ==
    IF exists(files, "bgp") THEN load_bgp_edges(graphs, files.bgp.edges)
    ELSE graphs

\* load_topology_data(): the four graphs.
load_topology_data(files) ==
    load_bgp_file(load_hsrp_file(load_physical_file(new_graphs, files), files),
                  files)

\* visualize_3d_topology_enhanced(graphs, datacenter) up to the layout (lines
\* 264-278; the rest draws pos_3d): the combined graph, or its subgraph of
\* the nodes of the datacenter, laid out.
visualize_3d_topology_enhanced(graphs, datacenter) ==
    create_enhanced_3d_layout(
        IF truthy(datacenter)
        THEN subgraph(graphs.combined,
                      SelectSeq(graphs.combined.nodes,
                                LAMBDA n : parse(n).datacenter = datacenter))
        ELSE graphs.combined,
        datacenter)

-----------------------------------------------------------------------------
(* parsers/visualize_topology.py: NetworkTopologyVisualizer, the loaders.  *)
(* data is the parsed JSON of the file a loader is given.                  *)

\* __init__
NetworkTopologyVisualizer ==
    [ physical_graph |-> Graph, hsrp_graph |-> Graph, bgp_graph |-> DiGraph,
      combined_graph |-> MultiGraph ]

\* dict.get(field, '') of load_cdp_topology
get_or_empty(obj, field) == IF field \in DOMAIN obj THEN obj[field] ELSE <<>>

\* load_cdp_topology(self, cdp_file): self afterwards.
load_cdp_topology(self, data) ==
    LET nodes == data.nodes
        edges == data.edges
        with_node[i \in 0..Len(nodes)] ==
            IF i = 0 THEN self
            ELSE [ with_node[i - 1] EXCEPT
                     !.physical_graph = add_node(@, nodes[i].name, nodes[i].type),
                     !.combined_graph = add_node(@, nodes[i].name, nodes[i].type) ]
        attr(edge) == [ link_type |-> "physical",
                        source_intf |-> get_or_empty(edge, "source_interface"),
                        target_intf |-> get_or_empty(edge, "target_interface") ]
        with_edge[i \in 0..Len(edges)] ==
            IF i = 0 THEN with_node[Len(nodes)]
            ELSE [ with_edge[i - 1] EXCEPT
                     !.physical_graph = add_edge(@, edges[i].source, edges[i].target,
                                                 {}, attr(edges[i])),
                     !.combined_graph = add_edge(@, edges[i].source, edges[i].target,
                                                 {"physical"}, attr(edges[i])) ]
    IN  with_edge[Len(edges)]

\* load_hsrp_topology(self, hsrp_file): self afterwards.
load_hsrp_topology(self, data) ==
    LET edges == data.edges
        attr(edge) == [ link_type |-> "hsrp",
                        virtual_ip |-> get(edge, "virtual_ip"),
                        group |-> get(edge, "group") ]
        with_edge[i \in 0..Len(edges)] ==
            IF i = 0 THEN self
            ELSE [ with_edge[i - 1] EXCEPT
                     !.hsrp_graph = add_edge(@, edges[i].source, edges[i].target,
                                             {}, attr(edges[i])),
                     !.combined_graph = add_edge(@, edges[i].source, edges[i].target,
                                                 {"hsrp"}, attr(edges[i])) ]
    IN  with_edge[Len(edges)]

\* load_bgp_topology(self, bgp_file): self afterwards.
load_bgp_topology(self, data) ==
    LET edges == data.edges
        with_edge[i \in 0..Len(edges)] ==
            IF i = 0 THEN self
            ELSE [ with_edge[i - 1] EXCEPT
                     !.bgp_graph = add_edge(@, edges[i].source, edges[i].target, {},
                                            [ link_type |-> "bgp",
                                              peering_type |-> get(edges[i], "peering_type"),
                                              local_as |-> get(edges[i], "local_as"),
                                              remote_as |-> get(edges[i], "remote_as") ]),
                     !.combined_graph = add_edge(@, edges[i].source, edges[i].target,
                                                 {"bgp"},
                                                 [ link_type |-> "bgp",
                                                   peering_type |-> get(edges[i], "peering_type") ]) ]
    IN  with_edge[Len(edges)]

-----------------------------------------------------------------------------
(* The calls of a run. A call is [op, args]; each action below is one      *)
(* operation of the program, applied to the next call of the script.       *)

Call(op, args) == [op |-> op, args |-> args]

NextIs(op) == pc <= Len(script) /\ script[pc].op = op

Return(value) ==
    /\ results' = Append(results, value)
    /\ pc' = pc + 1
    /\ UNCHANGED <<registry, parser, hash_seed, script, visualizer>>

\* The end of a layout call: pos_3d returned, the random stream as left.
ReturnLayout(out) ==
    /\ Return(out.pos_3d)
    /\ np_random' = out.np_random

\* parse that learns: a name it cannot parse adds its first two characters to
\* the parser's types.
ParseCallLearning ==
    /\ NextIs("parse")
    /\ LET r == parse(script[pc].args[1])
           clean == hostname_clean(script[pc].args[1])
       IN  /\ results' = Append(results, r)
           /\ parser' = IF r.valid \/ Len(clean) < 2 THEN parser
                        ELSE [parser EXCEPT !.types = Append(@, SubSeq(clean, 1, 2))]
    /\ pc' = pc + 1
    /\ UNCHANGED <<registry, script, np_random, hash_seed, visualizer>>

\* parser.parse(hostname)
ParseCall ==
    /\ NextIs("parse")
    /\ Return(parse(script[pc].args[1]))
    /\ UNCHANGED np_random

\* config.get_lane(position)
GetLaneCall ==
    /\ NextIs("get_lane")
    /\ Return(get_lane(script[pc].args[1]))
    /\ UNCHANGED np_random

\* config.get_z_layer(position)
GetZLayerCall ==
    /\ NextIs("get_z_layer")
    /\ Return(get_z_layer(script[pc].args[1]))
    /\ UNCHANGED np_random

\* config.validate_config()
ValidateConfigCall ==
    /\ NextIs("validate_config")
    /\ Return(validate_config)
    /\ UNCHANGED np_random

\* parser.are_ha_pair(hostname1, hostname2)
AreHaPairCall ==
    /\ NextIs("parser.are_ha_pair")
    /\ Return(parser_are_ha_pair(script[pc].args[1], script[pc].args[2]))
    /\ UNCHANGED np_random

\* config.are_ha_pair(parser.parse(hostname1), parser.parse(hostname2))
ConfigAreHaPairCall ==
    /\ NextIs("config.are_ha_pair")
    /\ Return(are_ha_pair(parse(script[pc].args[1]), parse(script[pc].args[2])))
    /\ UNCHANGED np_random

\* parser.find_ha_pairs(hostnames)
FindHaPairsCall ==
    /\ NextIs("find_ha_pairs")
    /\ Return(find_ha_pairs(script[pc].args[1]))
    /\ UNCHANGED np_random

\* parser.group_by_datacenter(hostnames)
GroupByDatacenterCall ==
    /\ NextIs("group_by_datacenter")
    /\ Return(group_by_datacenter(script[pc].args[1]))
    /\ UNCHANGED np_random

\* graphs = load_topology_data(), with files in OUTPUT_DIR
LoadTopologyDataCall ==
    /\ NextIs("load_topology_data")
    /\ Return(load_topology_data(script[pc].args[1]))
    /\ UNCHANGED np_random

\* visualize_3d_topology_enhanced(graphs, datacenter), graphs being what the
\* call before returned; the value kept is pos_3d.
VisualizeCall ==
    /\ NextIs("visualize_3d_topology_enhanced")
    /\ pc > 1 /\ script[pc - 1].op = "load_topology_data"
    /\ ReturnLayout(visualize_3d_topology_enhanced(results[pc - 1],
                                                   script[pc].args[1].datacenter))

\* A loader of the visualizer object returns None and leaves the object as
\* given.
ReturnSelf(self) ==
    /\ visualizer' = self
    /\ results' = Append(results, None)
    /\ pc' = pc + 1
    /\ UNCHANGED <<registry, parser, np_random, hash_seed, script>>

\* visualizer.load_cdp_topology(file), data being the file's content
LoadCdpTopologyCall ==
    /\ NextIs("load_cdp_topology")
    /\ ReturnSelf(load_cdp_topology(visualizer, script[pc].args[1]))

\* visualizer.load_hsrp_topology(file)
LoadHsrpTopologyCall ==
    /\ NextIs("load_hsrp_topology")
    /\ ReturnSelf(load_hsrp_topology(visualizer, script[pc].args[1]))

\* visualizer.load_bgp_topology(file)
LoadBgpTopologyCall ==
    /\ NextIs("load_bgp_topology")
    /\ ReturnSelf(load_bgp_topology(visualizer, script[pc].args[1]))

\* create_enhanced_3d_layout(graph, datacenter_filter)
LayoutCall ==
    /\ NextIs("create_enhanced_3d_layout")
    /\ ReturnLayout(create_enhanced_3d_layout(script[pc].args[1], script[pc].args[2]))

-----------------------------------------------------------------------------
(* Inputs.                                                                 *)

MaxLen == 4
MaxCalls == 3
MaxList == 3
MaxNodes == 3

\* A registry whose lanes were edited beyond [LANE_MIN, LANE_MAX].
WideLaneRegistry ==
    [ ShippedRegistry EXCEPT !.POSITION_TO_LANE =
        << << <<"i","g","w">>, 0 >>,  << <<"p","u","b">>, 2 >>,
           << <<"c","o">>, 0 >>,      << <<"d","c">>, -2 >>,
           << <<"d","i">>, 11 >>,     << <<"l","b">>, -3 >>,
           << <<"a","c","c">>, 0 >>,  << <<"w","d">>, -14 >>,
           << <<"p","r","v">>, 5 >>,  << <<"c","s","h">>, 12 >> >> ]

Registries == {ShippedRegistry, WideLaneRegistry}

\* A registry whose position 'csh' has a z-layer and no lane.
LaneMissingRegistry ==
    [ ShippedRegistry EXCEPT !.POSITION_TO_LANE =
        SubSeq(POSITION_TO_LANE, 1, Len(POSITION_TO_LANE) - 1) ]

\* A registry whose position 'csh' has a lane and no z-layer.
LayerMissingRegistry ==
    [ ShippedRegistry EXCEPT !.POSITION_TO_Z_LAYER =
        SubSeq(POSITION_TO_Z_LAYER, 1, Len(POSITION_TO_Z_LAYER) - 1) ]

\* The shipped registry with the entries of each vocabulary listed the other
\* way round.
ReorderedRegistry ==
    [ DATACENTERS |-> Reverse(DATACENTERS),
      POSITION_TO_Z_LAYER |-> Reverse(POSITION_TO_Z_LAYER),
      POSITION_TO_LANE |-> Reverse(POSITION_TO_LANE),
      TYPE_TO_ICON |-> Reverse(TYPE_TO_ICON) ]

Counters == { <<"0","1">>, <<"0","2">>, <<"U+0660","1">> }

\* Every concatenation datacenter + position + type + counter of the shipped
\* vocabularies.
WellFormed ==
    { d \o p \o t \o c : d \in SeqToSet(DATACENTERS),
                         p \in SeqToSet(dict_keys(POSITION_TO_Z_LAYER)),
                         t \in SeqToSet(dict_keys(TYPE_TO_ICON)),
                         c \in Counters }

TypeCount ==
    { t \o c : t \in SeqToSet(dict_keys(TYPE_TO_ICON)), c \in Counters }

\* h with each s written as the long s and each i as the dotless i.
OldLetters(h) ==
    [ n \in 1..Len(h) |-> IF h[n] = "s" THEN "U+017F"
                          ELSE IF h[n] = "i" THEN "U+0131" ELSE h[n] ]

\* The ways a device name reaches the parser: as is, upper case, padded, in
\* old letters, and damaged (a digit short, a digit long, dash-separated).
Written(h) ==
    { h, upper(h), <<" ">> \o h \o <<"\n">>, OldLetters(h),
      SubSeq(h, 1, Len(h) - 1), h \o <<"0">>,
      SubSeq(h, 1, Len(h) - 2) \o <<"-">> \o SubSeq(h, Len(h) - 1, Len(h)) }

ShortAlphabet == {"s", "r", "S", "U+017F", "0", " "}

ShortStrings == UNION { [1..n -> ShortAlphabet] : n \in 0..MaxLen }

Hostnames ==
    (UNION { Written(h) : h \in WellFormed \cup TypeCount }) \cup ShortStrings

PositionCodes ==
    SeqToSet(dict_keys(POSITION_TO_Z_LAYER))
    \cup { None, <<>>, <<"x","x">>, <<"C","O">>, <<"c","U+017F","h">> }

\* Hostnames of the runs that make several calls.
SessionHosts ==
    { <<"n","p","c","c","o","s","r","0","1">>,
      <<"N","p","c","C","S","H","s","w","0","2">>,
      <<"s","r","0","1">>,
      <<"U+017F","r","0","1">>,
      <<"x","x","0","1">>,
      <<" ","f","w","0","1"," ">> }

ClassifierScripts ==
    { <<Call("parse", <<h>>)>> : h \in Hostnames }
    \cup { <<Call("get_lane", <<p>>)>> : p \in PositionCodes }
    \cup { <<Call("get_z_layer", <<p>>)>> : p \in PositionCodes }
    \cup { <<Call("parse", <<upper(h)>>), Call("parse", <<lower(h)>>)>> :
             h \in SessionHosts }
    \cup { [n \in 1..MaxCalls |-> Call("parse", <<hs[n]>>)] :
             hs \in [1..MaxCalls -> SessionHosts] }
    \cup { <<Call("validate_config", <<>>), Call("parse", <<h>>)>> :
             h \in SessionHosts }
    \cup { <<Call("parse", <<h>>), Call("parse", << <<" ">> \o upper(h) \o <<"\n">> >>)>> :
             h \in SessionHosts }

\* The runs under the registries where 'csh' lacks a lane or a z-layer: validation,
\* then a look-up of the position or of a host elsewhere.
ValidationScripts ==
    { <<Call("validate_config", <<>>)>>,
      <<Call("validate_config", <<>>), Call("get_lane", << <<"c","s","h">> >>)>>,
      <<Call("validate_config", <<>>), Call("get_z_layer", << <<"c","s","h">> >>)>>,
      <<Call("validate_config", <<>>),
        Call("parse", << <<"n","p","c","c","o","s","r","0","1">> >>)>> }

\* The runs under the reordered registry: one well-formed name, as is or in
\* upper case.
ReorderedScripts ==
    { <<Call("parse", <<h>>)>> : h \in WellFormed \cup TypeCount }
    \cup { <<Call("parse", <<upper(h)>>)>> : h \in WellFormed \cup TypeCount }

InitWith(registries, hash_seeds, scripts) ==
    /\ registry \in registries
    /\ parser = EnhancedHostnameParser(registry)
    /\ np_random = 0
    /\ hash_seed \in hash_seeds
    /\ script \in scripts
    /\ pc = 1
    /\ results = <<>>
    /\ visualizer = NetworkTopologyVisualizer

Init ==
    \/ InitWith(Registries, {0}, ClassifierScripts)
    \/ InitWith({LaneMissingRegistry, LayerMissingRegistry}, {0}, ValidationScripts)
    \/ InitWith({ReorderedRegistry}, {0}, ReorderedScripts)

Next == ParseCall \/ GetLaneCall \/ GetZLayerCall \/ ValidateConfigCall

Spec == Init /\ [][Next]_vars

\* HA-pair detection: the hostnames of the lists it is run on.
ListHosts ==
    { <<"n","p","c","c","o","s","r","0","1">>,
      <<"n","p","c","c","o","s","r","0","2">>,
      <<"n","p","c","c","o","s","r","0","3">>,
      <<"N","P","C","C","O","S","R","0","1">>,
      <<"w","p","c","a","c","c","s","w","1","1">>,
      <<"s","r","0","1">>,
      <<"s","r","0","2">>,
      <<"x","x","0","1">> }

\* The hostnames of the pairs: those, and names one segment away from them.
PairHosts ==
    ListHosts \cup { <<"n","p","c","d","c","s","r","0","2">>,
                     <<"w","p","c","c","o","s","r","0","2">>,
                     <<"n","p","c","c","o","s","w","0","2">>,
                     <<"U+017F","r","0","2">> }

HostLists == UNION { [1..n -> ListHosts] : n \in 0..MaxList }

HAScripts ==
    { << Call("parser.are_ha_pair", <<a, b>>), Call("config.are_ha_pair", <<a, b>>),
         Call("parse", <<a>>), Call("parse", <<b>>) >> : a \in PairHosts, b \in PairHosts }
    \cup { <<Call("find_ha_pairs", <<l>>)>> : l \in HostLists }
    \cup { <<Call("group_by_datacenter", <<l>>)>> : l \in HostLists }

InitHA == InitWith({ShippedRegistry}, {0}, HAScripts)

NextHA ==
    \/ ParseCall \/ AreHaPairCall \/ ConfigAreHaPairCall \/ FindHaPairsCall
    \/ GroupByDatacenterCall

SpecHA == InitHA /\ [][NextHA]_vars

-----------------------------------------------------------------------------
(* Properties, and the vocabulary they are stated in.                      *)

\* The value a table of the registry configures for a key it holds.
ConfiguredValue(table, key) == table[CHOOSE i \in 1..Len(table) : table[i][1] = key][2]
Configured(table) == { table[i][1] : i \in 1..Len(table) }

Clamp(v) == IF v < LANE_MIN THEN LANE_MIN ELSE IF v > LANE_MAX THEN LANE_MAX ELSE v

\* Text c holds exactly w from index `from` on.
HoldsAt(w, c, from) ==
    from + Len(w) - 1 <= Len(c) /\ SubSeq(c, from, from + Len(w) - 1) = w

\* Text c ends in exactly two digits that start at index `from`.
TwoDigitsFrom(c, from) ==
    Len(c) = from + 1 /\ IsDigit(c[from]) /\ IsDigit(c[from + 1])

Trimmed(h) == lower(strip(h))

\* c is datacenter d + position p + type t + two digits.
IsFullForm(c, d, p, t) ==
    /\ HoldsAt(d, c, 1)
    /\ HoldsAt(p, c, 1 + Len(d))
    /\ HoldsAt(t, c, 1 + Len(d) + Len(p))
    /\ TwoDigitsFrom(c, 1 + Len(d) + Len(p) + Len(t))

HasFullForm(c) ==
    \E d \in SeqToSet(registry.DATACENTERS) :
        HoldsAt(d, c, 1) /\
        \E p \in Configured(registry.POSITION_TO_Z_LAYER) :
            HoldsAt(p, c, 1 + Len(d)) /\
            \E t \in Configured(registry.TYPE_TO_ICON) : IsFullForm(c, d, p, t)

LastTwo(c) == SubSeq(c, Len(c) - 1, Len(c))

ParseCalls == { n \in 1..Len(results) : script[n].op = "parse" }

\* C1: a hostname that, trimmed and lower-cased, is a configured datacenter, a
\* configured position, a configured type and two digits parses as valid and
\* 'full', with those four segments, the registry's z-layer of the position and
\* the registry's lane of the position clamped to [LANE_MIN, LANE_MAX].
C1_FullPatternParsed ==
    \A n \in ParseCalls :
        LET c == Trimmed(script[n].args[1])
            r == results[n]
        IN  \A d \in SeqToSet(registry.DATACENTERS) : HoldsAt(d, c, 1) =>
            \A p \in Configured(registry.POSITION_TO_Z_LAYER) : HoldsAt(p, c, 1 + Len(d)) =>
            \A t \in Configured(registry.TYPE_TO_ICON) : IsFullForm(c, d, p, t) =>
                /\ r.valid /\ r.parse_method = "full"
                /\ r.datacenter = d /\ r.position = p /\ r.type = t
                /\ r.counter = LastTwo(c)
                /\ r.z_level = ConfiguredValue(registry.POSITION_TO_Z_LAYER, p)
                /\ r.lane = Clamp(ConfiguredValue(registry.POSITION_TO_LANE, p))

\* A padded or upper-case hostname of the full form was parsed, at a position
\* whose configured lane lies above LANE_MAX.
C1_Witness ==
    \E n \in ParseCalls :
        /\ HasFullForm(Trimmed(script[n].args[1]))
        /\ script[n].args[1] # Trimmed(script[n].args[1])
        /\ results[n].parse_method = "full"
        /\ ConfiguredValue(registry.POSITION_TO_LANE, results[n].position) > LANE_MAX
        /\ results[n].lane = LANE_MAX

\* C2: a hostname that is not of the full form but is a configured type and two
\* digits parses as valid and 'type_count', without datacenter and position,
\* with that type and counter, at the default z-layer 1.5 and the default lane 0.
C2_TypeCountParsed ==
    \A n \in ParseCalls :
        LET c == Trimmed(script[n].args[1])
            r == results[n]
        IN  \A t \in Configured(registry.TYPE_TO_ICON) :
                (~HasFullForm(c) /\ HoldsAt(t, c, 1) /\ TwoDigitsFrom(c, 1 + Len(t))) =>
                    /\ r.valid /\ r.parse_method = "type_count"
                    /\ r.datacenter = None /\ r.position = None
                    /\ r.type = t /\ r.counter = LastTwo(c)
                    /\ r.z_level = 15 /\ r.lane = 0

\* A type+count hostname was parsed whose type is also a position code.
C2_Witness ==
    \E n \in ParseCalls :
        /\ Trimmed(script[n].args[1]) = <<"l","b","0","2">>
        /\ results[n].parse_method = "type_count"
        /\ results[n].type \in Configured(registry.POSITION_TO_Z_LAYER)

ResultFields ==
    { "hostname", "datacenter", "position", "type", "counter", "z_level", "lane",
      "lane_x", "icon_config", "valid", "parse_method" }

\* C3: parse returns a result for every input string; when neither pattern
\* matches, the result is invalid with method 'none', has no datacenter,
\* position, type or counter, and carries the default z-layer and lane.
C3_ParseTotal ==
    /\ pc = Len(results) + 1
    /\ \A n \in ParseCalls :
        LET c == Trimmed(script[n].args[1])
            r == results[n]
        IN  /\ DOMAIN r = ResultFields
            /\ r.z_level \in Int /\ r.lane \in Int
            /\ (pattern_match(c) = None /\ type_count_pattern_match(c) = None) =>
                /\ ~r.valid /\ r.parse_method = "none"
                /\ r.datacenter = None /\ r.position = None
                /\ r.type = None /\ r.counter = None
                /\ r.z_level = 15 /\ r.lane = 0

\* A malformed string (a damaged name, or one with no letter at all) was parsed.
C3_Witness ==
    \E n \in ParseCalls :
        /\ results[n].parse_method = "none"
        /\ \/ "-" \in SeqToSet(script[n].args[1])
           \/ script[n].args[1] \in {<<>>, <<" ", " ">>, <<"0", "0", "0">>}

\* C4: two calls of parse on the same hostname return identical results, whatever
\* calls come between them, and no call changes the parser or the registry.
C4_Deterministic ==
    /\ [](\A i, j \in ParseCalls : script[i].args = script[j].args => results[i] = results[j])
    /\ [][registry' = registry /\ parser' = parser]_vars

\* A hostname was parsed, then another, then the first again.
C4_Witness ==
    /\ Len(results) = 3 /\ ParseCalls = {1, 2, 3}
    /\ script[1].args = script[3].args /\ script[2].args # script[1].args
    /\ results[1].valid /\ ~results[2].valid

SameIdentity(r1, r2) ==
    /\ r1.datacenter = r2.datacenter /\ r1.position = r2.position
    /\ r1.type = r2.type /\ r1.counter = r2.counter
    /\ r1.valid = r2.valid /\ r1.parse_method = r2.parse_method
    /\ r1.z_level = r2.z_level /\ r1.lane = r2.lane

\* C5: for every hostname h, parse(h.upper()) and parse(h.lower()) have the same
\* datacenter, position, type, counter, valid flag, parse_method, z-layer and lane.
C5_CaseInsensitive ==
    \A h \in SessionHosts :
        ( /\ Len(results) = 2 /\ ParseCalls = {1, 2}
          /\ script[1].args = <<upper(h)>> /\ script[2].args = <<lower(h)>> )
        => SameIdentity(results[1], results[2])

\* C9: get_lane returns a lane within [LANE_MIN, LANE_MAX] for every position
\* code: the configured lane clamped, or 0 for a code the registry does not
\* hold; and the lane of every parse result is within the bounds.
C9_LaneWithinBounds ==
    \A n \in 1..Len(results) :
        /\ script[n].op = "get_lane" =>
              LET p == script[n].args[1]
              IN  /\ results[n] \in LANE_MIN..LANE_MAX
                  /\ p \in Configured(registry.POSITION_TO_LANE) =>
                        results[n] = Clamp(ConfiguredValue(registry.POSITION_TO_LANE, p))
                  /\ p \notin Configured(registry.POSITION_TO_LANE) => results[n] = 0
        /\ script[n].op = "parse" => results[n].lane \in LANE_MIN..LANE_MAX

\* get_lane was asked for a position whose configured lane lies below LANE_MIN.
C9_Witness ==
    \E n \in 1..Len(results) :
        /\ script[n].op = "get_lane"
        /\ script[n].args[1] \in Configured(registry.POSITION_TO_LANE)
        /\ ConfiguredValue(registry.POSITION_TO_LANE, script[n].args[1]) < LANE_MIN
        /\ results[n] = LANE_MIN

-----------------------------------------------------------------------------
(* Layout: the graphs it is run on.                                        *)

LayoutHosts ==
    { <<"n","p","c","c","o","s","r","0","1">>,
      <<"n","p","c","c","o","s","r","0","2">>,
      <<"n","p","c","a","c","c","s","w","0","1">>,
      <<"w","p","c","a","c","c","s","w","1","1">>,
      <<"x","x","0","1">>,
      <<"e","d","g","e">> }

\* node_type as the topology file gives it: a router, and a node without one.
LayoutAttrs == << << <<"x","x","0","1">>, <<"r","o","u","t","e","r">> >> >>

\* Node lists without repeats, as a graph holds them.
NodeLists ==
    UNION { { l \in [1..n -> LayoutHosts] : NoRepeatsIn(l) } : n \in 0..MaxNodes }

\* A fleet larger than twice its buckets, in two insertion orders.
Fleet ==
    << <<"n","p","c","c","o","s","r","0","1">>,
       <<"n","p","c","a","c","c","s","w","0","1">>,
       <<"x","x","0","1">>,
       <<"n","p","c","c","o","s","r","0","2">>,
       <<"e","d","g","e">>,
       <<"w","p","c","a","c","c","s","w","1","1">> >>

\* No edge, a chain along the node list, a chain with its first link doubled.
Chain(l) == [ i \in 1..(Len(l) - 1) |-> <<l[i], l[i + 1]>> ]

EdgeLists(l) ==
    { <<>>, Chain(l), (IF Len(l) > 1 THEN << <<l[2], l[1]>> >> ELSE <<>>) \o Chain(l) }

Graphs ==
    { [ nodes |-> l, attrs |-> LayoutAttrs, edges |-> e ] :
        <<l, e>> \in UNION { { <<l, e>> : e \in EdgeLists(l) } :
                             l \in NodeLists \cup {Fleet, Reverse(Fleet)} } }

DatacenterFilters == { None, <<>>, <<"n","p","c">> }

Layout(g, f) == Call("create_enhanced_3d_layout", <<g, f>>)

\* The same layout run twice, and run again after the layout of one datacenter.
LayoutScripts ==
    { << Layout(g, f), Layout(g, f) >> : g \in Graphs, f \in DatacenterFilters }
    \cup { << Layout([ nodes |-> l, attrs |-> LayoutAttrs, edges |-> Chain(l) ], None),
              Layout([ nodes |-> l, attrs |-> LayoutAttrs, edges |-> Chain(l) ], <<"n","p","c">>),
              Layout([ nodes |-> l, attrs |-> LayoutAttrs, edges |-> Chain(l) ], None) >> :
             l \in {Fleet, Reverse(Fleet)} }

HashSeeds == {0, 1}

\* Fleets off the centre lane: an HA pair in the lane of 'csh' beside a lone
\* 'dc' router; lone nodes, one of them without classification or node_type;
\* a 'co' bucket of an HA pair and a router of another datacenter; three
\* routers that pair with each other; two routers named by type and sequence
\* beside an access switch, and beside a switch named the same way.
LaneFleets ==
    { << <<"n","p","c","c","s","h","s","w","0","1">>,
         <<"n","p","c","d","c","s","r","0","1">>,
         <<"n","p","c","c","s","h","s","w","0","2">> >>,
      << <<"n","p","c","w","d","s","w","0","1">>,
         <<"e","d","g","e">>,
         <<"n","p","c","c","s","h","s","w","0","1">>,
         <<"x","x","0","1">> >>,
      << <<"n","p","c","c","o","s","r","0","2">>,
         <<"w","p","c","c","o","s","r","0","1">>,
         <<"n","p","c","c","o","s","r","0","1">> >>,
      << <<"n","p","c","c","o","s","r","0","1">>,
         <<"n","p","c","c","o","s","r","0","2">>,
         <<"n","p","c","c","o","s","r","0","3">> >>,
      << <<"s","r","0","2">>,
         <<"n","p","c","a","c","c","s","w","0","1">>,
         <<"s","r","0","1">> >>,
      << <<"s","r","0","1">>, <<"s","w","0","2">>, <<"S","R","0","2">> >> }

\* A single link, between the last two nodes of the list.
Spur(l) == << <<l[Len(l) - 1], l[Len(l)]>> >>

LaneGraphs ==
    { [ nodes |-> l, attrs |-> LayoutAttrs, edges |-> e ] :
        <<l, e>> \in UNION { { <<l, e>> : e \in {<<>>, Chain(l), Spur(l)} } :
                             l \in LaneFleets } }

EmptyGraph == [ nodes |-> <<>>, attrs |-> <<>>, edges |-> <<>> ]

\* The layout of a graph without nodes, then of a fleet.
LaneScripts ==
    { << Layout(EmptyGraph, f), Layout(g, f) >> :
        g \in LaneGraphs, f \in DatacenterFilters }

\* node_type values of a topology file: the four the legacy map knows and one
\* it does not.
LegacyTypes ==
    { <<"r","o","u","t","e","r">>, <<"c","o","r","e">>,
      <<"d","i","s","t","r","i","b","u","t","i","o","n">>,
      <<"a","c","c","e","s","s">>, <<"h","o","s","t">> }

\* A core router, a name that does not classify, an access switch and a
\* router named by type and sequence, in a chain.
TypedGraph(attrs) ==
    [ nodes |-> << <<"n","p","c","c","o","s","r","0","1">>, <<"x","x","0","1">>,
                   <<"n","p","c","a","c","c","s","w","0","1">>, <<"s","r","0","1">> >>,
      attrs |-> attrs,
      edges |-> Chain(<< <<"n","p","c","c","o","s","r","0","1">>, <<"x","x","0","1">>,
                         <<"n","p","c","a","c","c","s","w","0","1">>, <<"s","r","0","1">> >>) ]

\* The layout of that graph with a node_type on the unclassified name alone,
\* then with node_types on the classified names as well.
TypedScripts ==
    { << Layout(TypedGraph(<< << <<"x","x","0","1">>, t >> >>), f),
         Layout(TypedGraph(<< << <<"n","p","c","c","o","s","r","0","1">>, u >>,
                              << <<"x","x","0","1">>, t2 >>,
                              << <<"s","r","0","1">>, u >>,
                              << <<"n","p","c","a","c","c","s","w","0","1">>, t >> >>), f) >> :
        t \in LegacyTypes, t2 \in LegacyTypes, u \in LegacyTypes, f \in DatacenterFilters }

\* A graph of two core routers and an access switch, with or without the link
\* between the routers, and the same graph grown by a switch of another
\* datacenter and a 'dc' router, with or without a link that leaves the
\* routers' bucket.
SmallSite(e) ==
    [ nodes |-> << <<"n","p","c","c","o","s","r","0","1">>,
                   <<"n","p","c","c","o","s","r","0","2">>,
                   <<"n","p","c","a","c","c","s","w","0","1">> >>,
      attrs |-> <<>>,
      edges |-> e ]

GrownSite(e, out) ==
    [ nodes |-> SmallSite(e).nodes \o << <<"w","p","c","a","c","c","s","w","1","1">>,
                                         <<"n","p","c","d","c","s","r","0","1">> >>,
      attrs |-> <<>>,
      edges |-> e \o out ]

GrowthScripts ==
    { << Layout(SmallSite(e), f), Layout(GrownSite(e, out), f) >> :
        e \in { <<>>, << << <<"n","p","c","c","o","s","r","0","1">>,
                            <<"n","p","c","c","o","s","r","0","2">> >> >> },
        out \in { <<>>, << << <<"n","p","c","c","o","s","r","0","2">>,
                              <<"n","p","c","d","c","s","r","0","1">> >> >> },
        f \in DatacenterFilters }

InitLayout ==
    \/ InitWith({ShippedRegistry}, HashSeeds, LayoutScripts)
    \/ InitWith(Registries, {0}, LaneScripts)
    \/ InitWith({ShippedRegistry}, {0}, TypedScripts)
    \/ InitWith({ShippedRegistry}, HashSeeds, GrowthScripts)

NextLayout == LayoutCall

SpecLayout == InitLayout /\ [][NextLayout]_vars

\* The HA predicate of the contract, on two parse results.
HAPair(p, q) ==
    /\ p.valid /\ q.valid
    /\ p.datacenter = q.datacenter
    /\ p.position = q.position
    /\ p.type = q.type
    /\ p.counter # q.counter

Calls(op) == { n \in 1..Len(results) : script[n].op = op }

\* C6: are_ha_pair(a, b) is true exactly when both hostnames classify as valid,
\* their datacenter, position and type are equal and their counters differ, and
\* the parser method on two hostnames answers as the config helper does on their
\* two parse results.
C6_HaPairPredicate ==
    \A n \in Calls("parser.are_ha_pair") :
        LET a == script[n].args[1]
            b == script[n].args[2]
        IN  /\ \A c \in Calls("config.are_ha_pair") :
                   script[c].args = <<a, b>> => results[c] = results[n]
            /\ \A i \in Calls("parse"), j \in Calls("parse") :
                   script[i].args = <<a>> /\ script[j].args = <<b>>
                       => results[n] = HAPair(results[i], results[j])

C6_Witness ==
    /\ Len(results) = 4
    /\ script[1].op = "parser.are_ha_pair"
    /\ results[1] = TRUE /\ results[2] = TRUE
    /\ results[3].parse_method = "full"
    /\ results[3].counter # results[4].counter

Unordered(pairs) == { {pairs[k][1], pairs[k][2]} : k \in 1..Len(pairs) }

NoRepeats(l) == \A i \in 1..Len(l), j \in 1..Len(l) : l[i] = l[j] => i = j

Irreflexive(R) == \A k \in 1..Len(R) : R[k][1] # R[k][2]

OneOrder(R) == \A k \in 1..Len(R), m \in 1..Len(R) : R[k] # <<R[m][2], R[m][1]>>

C8_SoundAndComplete ==
    \A n \in Calls("find_ha_pairs") :
        LET l == script[n].args[1]
            R == results[n]
        IN  /\ Unordered(R) =
                 { {l[i], l[j]} : <<i, j>> \in
                     { ij \in (1..Len(l)) \X (1..Len(l)) :
                         HAPair(parse(l[ij[1]]), parse(l[ij[2]])) } }
            /\ SeqToSet(l) = { <<"n","p","c","c","o","s","r","0","1">>,
                               <<"n","p","c","c","o","s","r","0","2">>,
                               <<"w","p","c","a","c","c","s","w","1","1">> }
                 /\ Len(l) = 3
                 => R = << << <<"n","p","c","c","o","s","r","0","1">>,
                             <<"n","p","c","c","o","s","r","0","2">> >> >>

C8_Witness ==
    /\ Calls("find_ha_pairs") = {1}
    /\ script[1].args[1] = << <<"w","p","c","a","c","c","s","w","1","1">>,
                              <<"n","p","c","c","o","s","r","0","2">>,
                              <<"n","p","c","c","o","s","r","0","1">> >>
    /\ Len(results[1]) = 1

-----------------------------------------------------------------------------
(* Graph building: the datasets the builders are run on.                   *)

MaxEdges == 2

\* Two core routers that the physical file lists, and a device that only
\* edges name.
RouterA == <<"n","p","c","c","o","s","r","0","1">>
RouterB == <<"n","p","c","c","o","s","r","0","2">>
Stray == <<"e","d","g","e">>

CdpNodes ==
    << [ name |-> RouterA, type |-> <<"c","o","r","e">> ],
       [ name |-> RouterB, type |-> <<"c","o","r","e">> ] >>

CdpRecords ==
    { [ source |-> RouterA, target |-> RouterB ],
      [ source |-> RouterB, target |-> RouterA, source_interface |-> <<"e","1">> ],
      [ source |-> RouterA, target |-> Stray ] }

HsrpRecords ==
    { [ source |-> RouterA, target |-> RouterB, group |-> <<"1">> ],
      [ source |-> RouterA, target |-> RouterB, group |-> <<"2">>,
        virtual_ip |-> <<"v">> ],
      [ source |-> RouterB, target |-> Stray ] }

BgpRecords ==
    { [ source |-> RouterA, target |-> RouterB, type |-> <<"e">>,
        peering_type |-> <<"e">> ],
      [ source |-> RouterB, target |-> RouterA, type |-> <<"i">>,
        peering_type |-> <<"i">>, local_as |-> <<"1">> ],
      [ source |-> Stray, target |-> RouterA ] }

\* The edge lists of up to MaxEdges records, repeats included.
EdgeListsOf(records) == UNION { [1..n -> records] : n \in 0..MaxEdges }

CdpFiles == { [ nodes |-> CdpNodes, edges |-> l ] : l \in EdgeListsOf(CdpRecords) }
HsrpFiles == { [ edges |-> l ] : l \in EdgeListsOf(HsrpRecords) }
BgpFiles == { [ edges |-> l ] : l \in EdgeListsOf(BgpRecords) }

\* One link between the two routers in each dataset.
PlainCdp ==
    [ nodes |-> CdpNodes, edges |-> << [ source |-> RouterA, target |-> RouterB ] >> ]
PlainHsrp ==
    [ edges |-> << [ source |-> RouterA, target |-> RouterB, group |-> <<"1">> ] >> ]
PlainBgp ==
    [ edges |-> << [ source |-> RouterA, target |-> RouterB, type |-> <<"e">>,
                     peering_type |-> <<"e">> ] >> ]

\* The directories holding some of the three files out of a full one.
Present(full) ==
    { [ name \in names |-> full[name] ] : names \in SUBSET {"cdp", "hsrp", "bgp"} }

\* What OUTPUT_DIR may hold: one dataset in every shape beside the other two
\* plain, and any of the three missing.
Files ==
    UNION { Present([ cdp |-> c, hsrp |-> PlainHsrp, bgp |-> PlainBgp ]) : c \in CdpFiles }
    \cup UNION { Present([ cdp |-> PlainCdp, hsrp |-> h, bgp |-> PlainBgp ]) : h \in HsrpFiles }
    \cup UNION { Present([ cdp |-> PlainCdp, hsrp |-> PlainHsrp, bgp |-> b ]) : b \in BgpFiles }

\* The three files loaded into a visualizer object, in the pipeline's order
\* and with the physical file last.
VisualizerRuns ==
    { <<c, h, b>> : c \in CdpFiles, h \in {PlainHsrp}, b \in {PlainBgp} }
    \cup { <<c, h, b>> : c \in {PlainCdp}, h \in HsrpFiles, b \in {PlainBgp} }
    \cup { <<c, h, b>> : c \in {PlainCdp}, h \in {PlainHsrp}, b \in BgpFiles }

GraphScripts ==
    { << Call("load_topology_data", <<f>>),
         Call("visualize_3d_topology_enhanced", << [ datacenter |-> d ] >>) >> :
        f \in Files, d \in {None, <<"n","p","c">>} }
    \cup { << Call("load_cdp_topology", <<r[1]>>), Call("load_hsrp_topology", <<r[2]>>),
              Call("load_bgp_topology", <<r[3]>>) >> : r \in VisualizerRuns }
    \cup { << Call("load_bgp_topology", <<r[3]>>), Call("load_hsrp_topology", <<r[2]>>),
              Call("load_cdp_topology", <<r[1]>>) >> : r \in VisualizerRuns }

InitGraph == InitWith({ShippedRegistry}, {0}, GraphScripts)

NextGraph ==
    \/ LoadTopologyDataCall \/ VisualizeCall
    \/ LoadCdpTopologyCall \/ LoadHsrpTopologyCall \/ LoadBgpTopologyCall

SpecGraph == InitGraph /\ [][NextGraph]_vars

-----------------------------------------------------------------------------
(* The registry check.                                                     *)

\* C17: a registry that validate_config rejects (a position with a z-layer and
\* no lane or the reverse, or a lane outside [LANE_MIN, LANE_MAX]) is fatal at
\* start-up: no classification (parse, get_lane, get_z_layer) is produced from
\* it.  The code never calls validate_config on the way to a classification.
C17_MalformedRegistryIsFatal ==
    ~validate_config =>
        \A n \in 1..Len(results) : script[n].op = "validate_config"

-----------------------------------------------------------------------------
(* Grouping by datacenter.                                                 *)

\* The key a hostname is to be grouped under: its classified datacenter, or
\* 'unknown' when the classification has none.
GroupKey(h) ==
    IF parse(h).datacenter = None THEN <<"u","n","k","n","o","w","n">>
    ELSE parse(h).datacenter

\* The members of l whose key is k, in l's order, repeats kept.
Members(l, k) == SelectSeq(l, LAMBDA h : GroupKey(h) = k)

\* C14: group_by_datacenter partitions its input: the keys of the result are
\* the datacenters (or 'unknown') of the input's hostnames, each once; the list
\* under a key holds exactly the input's hostnames of that key, so every
\* hostname is in exactly one list, none is left out, and no list is empty.
C14_GroupsPartition ==
    \A n \in Calls("group_by_datacenter") :
        LET l == script[n].args[1]
            grouped == results[n]
        IN  /\ NoRepeats(dict_keys(grouped))
            /\ SeqToSet(dict_keys(grouped)) = { GroupKey(l[i]) : i \in 1..Len(l) }
            /\ \A g \in 1..Len(grouped) :
                  /\ grouped[g][2] # <<>>
                  /\ grouped[g][2] = Members(l, grouped[g][1])

\* A list with hosts of two datacenters and one of none was grouped into
\* three lists, one of them under 'unknown'.
C14_Witness ==
    \E n \in Calls("group_by_datacenter") :
        /\ Len(script[n].args[1]) = 3
        /\ Len(results[n]) = 3
        /\ dict_has(results[n], <<"u","n","k","n","o","w","n">>)
        /\ dict_has(results[n], <<"n","p","c">>)

-----------------------------------------------------------------------------
(* The layout result.                                                      *)

LayoutCalls == Calls("create_enhanced_3d_layout")

\* C13: without a datacenter filter (None, or the empty string) the keys of
\* the result are the nodes of the graph: a node that did not classify is
\* placed as well, and a graph without nodes gives an empty result.
C13_EveryNodePlaced ==
    \A n \in LayoutCalls :
        (script[n].args[2] = None \/ script[n].args[2] = <<>>) =>
            DOMAIN results[n] = SeqToSet(script[n].args[1].nodes)

\* The graph without nodes gave the empty result, and a fleet holding a node
\* that neither classifies nor has a node_type was laid out without a filter
\* with that node in the default bucket.
C13_Witness ==
    /\ Len(results) = 2
    /\ script[1].args[1].nodes = <<>> /\ DOMAIN results[1] = {}
    /\ script[2].args[2] = None
    /\ <<"e","d","g","e">> \in DOMAIN results[2]
    /\ ~parse(<<"e","d","g","e">>).valid
    /\ results[2][<<"e","d","g","e">>] = <<0, 0, 15>>

\* The lane and the z-layer a node of the graph is classified to, p being the
\* parse result of its hostname: those of p, or lane 0 and the z-layer of the
\* node_type (1.5 when it has none or an unlisted one) when p is not valid.
ClassifiedAs(g, v, p) ==
    IF p.valid THEN <<p.lane, p.z_level>>
    ELSE LET t == dict_get(g.attrs, v, <<>>)
         IN  IF t = <<"r","o","u","t","e","r">> THEN <<0, 40>>
             ELSE IF t = <<"c","o","r","e">> THEN <<0, 35>>
             ELSE IF t = <<"d","i","s","t","r","i","b","u","t","i","o","n">> THEN <<0, 25>>
             ELSE <<0, 15>>

\* The nodes of the n-th result, each with its <<lane, z-layer>>.
Classified(n) ==
    { <<v, ClassifiedAs(script[n].args[1], v, parse(v))>> : v \in DOMAIN results[n] }

\* C15: in every result, HA offsets applied, the x of a node is its classified
\* lane times LANE_WIDTH and its z is its classified z-layer; hence two nodes
\* of one lane and z-layer share x and z and differ in y at most.
C15_LaneAndLayerFixXZ ==
    \A n \in LayoutCalls :
        /\ \A c \in Classified(n) :
              /\ results[n][c[1]][1] = c[2][1] * LANE_WIDTH
              /\ results[n][c[1]][3] = c[2][2]
        /\ \A c \in Classified(n), d \in Classified(n) :
              c[2] = d[2] =>
                  /\ results[n][c[1]][1] = results[n][d[1]][1]
                  /\ results[n][c[1]][3] = results[n][d[1]][3]

\* Under the registry with lanes out of range, an HA pair of the 'csh' lane
\* (configured 12, clamped to 10) was laid out and moved apart: both at
\* x = 10 * LANE_WIDTH and z = 0, at different y.
C15_Witness ==
    \E n \in LayoutCalls :
        LET a == <<"n","p","c","c","s","h","s","w","0","1">>
            b == <<"n","p","c","c","s","h","s","w","0","2">>
        IN  /\ registry = WideLaneRegistry
            /\ a \in DOMAIN results[n] /\ b \in DOMAIN results[n]
            /\ results[n][a][1] = LANE_MAX * LANE_WIDTH
            /\ results[n][b][1] = LANE_MAX * LANE_WIDTH
            /\ results[n][a][3] = 0 /\ results[n][b][3] = 0
            /\ results[n][a][2] # results[n][b][2]

\* C16: the two members of an HA pair found among the nodes laid out never
\* have the same coordinates in the result, whatever y the sub-layout gave
\* them.  The code moves the first member down and the second up by
\* HA_PAIR_OFFSET without looking at their y, which brings them together when
\* the first member's y was 2 * HA_PAIR_OFFSET above the second's.
C16_PartnersApart ==
    \A n \in LayoutCalls :
        \A u \in DOMAIN results[n], v \in DOMAIN results[n] :
            parser_are_ha_pair(u, v) => results[n][u] # results[n][v]

\* c is the only node of its bucket among the classified nodes.
Alone(classified, c) == \A d \in classified : d[2] = c[2] => d = c

\* C20: a node that is alone in its (z-layer, lane) bucket is at
\* (lane * LANE_WIDTH, 0.0, z-layer) in the result, HA offsets applied.
C20_LoneNodeAtLaneCentre ==
    \A n \in LayoutCalls :
        \A c \in Classified(n) :
            Alone(Classified(n), c) =>
                results[n][c[1]] = << c[2][1] * LANE_WIDTH, 0, c[2][2] >>

\* A result in which an HA pair was moved apart and a router alone in the
\* lane of 'dc' stands at (-2 * LANE_WIDTH, 0.0, 3.0).
C20_Witness ==
    \E n \in LayoutCalls :
        LET a == <<"n","p","c","c","s","h","s","w","0","1">>
            b == <<"n","p","c","c","s","h","s","w","0","2">>
            d == <<"n","p","c","d","c","s","r","0","1">>
        IN  /\ {a, b, d} \subseteq DOMAIN results[n]
            /\ results[n][a][2] # results[n][b][2]
            /\ Alone(Classified(n), <<d, <<-2, 30>> >>)
            /\ results[n][d] = << -2 * LANE_WIDTH, 0, 30 >>

-----------------------------------------------------------------------------
(* The combined graph.                                                     *)

Relations == {"physical", "hsrp", "bgp"}

Devices == {RouterA, RouterB, Stray}

\* The records of relation r in the directory files: those of the file of
\* that relation, none when the file is missing.
RecordsOf(files, r) ==
    LET name == IF r = "physical" THEN "cdp" ELSE r
    IN  IF name \in DOMAIN files THEN files[name].edges ELSE <<>>

\* The records of the list l, and the edges of relation r of the graph G,
\* that run between u and v in either direction.
RecordsBetween(l, u, v) ==
    { i \in 1..Len(l) : {l[i].source, l[i].target} = {u, v} }

EdgesBetween(G, r, u, v) ==
    { i \in 1..Len(G.edges) :
        {G.edges[i][1], G.edges[i][2]} = {u, v} /\ G.edges[i][4].link_type = r }

LoadCalls == Calls("load_topology_data")

\* The records of relation r loaded into the visualizer object so far.
LoaderOf(r) == IF r = "physical" THEN "load_cdp_topology"
               ELSE IF r = "hsrp" THEN "load_hsrp_topology" ELSE "load_bgp_topology"

LoadedInto(r) ==
    LET n == { m \in 1..Len(results) : script[m].op = LoaderOf(r) }
    IN  IF n = {} THEN <<>> ELSE script[CHOOSE m \in n : TRUE].args[1].edges

\* In G, for any two relations with a record between the same two devices,
\* there are two edges between the devices, one labelled with each relation,
\* under different keys.
RelationsApart(G, records(_)) ==
    \A r \in Relations : \A q \in Relations \ {r} : \A u \in Devices, v \in Devices :
        (RecordsBetween(records(r), u, v) # {} /\ RecordsBetween(records(q), u, v) # {}) =>
            \E i \in EdgesBetween(G, r, u, v), j \in EdgesBetween(G, q, u, v) :
                i # j /\ G.edges[i][3] # G.edges[j][3]

\* C11: the relation is part of an edge's identity: when the physical dataset
\* and the BGP or HSRP dataset both hold an edge between A and B, the combined
\* graph holds two distinct edges between A and B, each with its own relation
\* label, as built by load_topology_data and as built by the loaders of
\* NetworkTopologyVisualizer after each of their calls: the edge of one
\* relation is neither replaced nor removed by the edge of another.
C11_RelationInEdgeIdentity ==
    /\ \A n \in LoadCalls :
          RelationsApart(results[n].combined, LAMBDA r : RecordsOf(script[n].args[1], r))
    /\ RelationsApart(visualizer.combined_graph, LoadedInto)

\* load_topology_data returned a combined graph with a physical, an HSRP and
\* a BGP edge between the two routers, all three datasets naming that link.
C11_Witness ==
    \E n \in LoadCalls :
        /\ \A r \in Relations :
              RecordsBetween(RecordsOf(script[n].args[1], r), RouterA, RouterB) # {}
        /\ \A r \in Relations :
              EdgesBetween(results[n].combined, r, RouterA, RouterB) # {}
        /\ Len(results[n].combined.edges) >= 3

\* C12: a device that the datasets name only as the source or target of an
\* edge is a node of the combined graph load_topology_data builds, and the
\* layout of that graph without a datacenter filter gives it a coordinate.
C12_EndpointsAreNodes ==
    /\ \A n \in LoadCalls :
          \A r \in Relations :
              LET l == RecordsOf(script[n].args[1], r)
              IN  \A i \in 1..Len(l) :
                      /\ IsIn(results[n].combined.nodes, l[i].source)
                      /\ IsIn(results[n].combined.nodes, l[i].target)
    /\ \A n \in Calls("visualize_3d_topology_enhanced") :
          script[n].args[1].datacenter = None =>
              \A r \in Relations :
                  LET l == RecordsOf(script[n - 1].args[1], r)
                  IN  \A i \in 1..Len(l) :
                          {l[i].source, l[i].target} \subseteq DOMAIN results[n]

\* The device that no node list holds was named by an edge, and the layout
\* without filter put it in the default bucket.
C12_Witness ==
    \E n \in Calls("visualize_3d_topology_enhanced") :
        /\ script[n].args[1].datacenter = None
        /\ \E r \in Relations :
              RecordsBetween(RecordsOf(script[n - 1].args[1], r), RouterB, Stray) # {}
        /\ IsIn(results[n - 1].combined.nodes, Stray)
        /\ ~dict_has(results[n - 1].combined.attrs, Stray)
        /\ Stray \in DOMAIN results[n]
        /\ results[n][Stray] = <<0, 0, 15>>

\* C18: load_topology_data completes whichever of the three files are
\* missing, and between any two devices the combined graph holds as many
\* edges of a relation as the file of that relation holds records between
\* them: none for a missing file, every one for a file that is there.
C18_MissingDatasetTolerated ==
    \A n \in LoadCalls :
        \A r \in Relations : \A u \in Devices, v \in Devices :
            Cardinality(EdgesBetween(results[n].combined, r, u, v))
              = Cardinality(RecordsBetween(RecordsOf(script[n].args[1], r), u, v))

\* The load was made without a BGP file and with two physical records and an
\* HSRP record: the combined graph holds those three edges and no BGP edge.
C18_Witness ==
    \E n \in LoadCalls :
        /\ DOMAIN script[n].args[1] = {"cdp", "hsrp"}
        /\ Len(script[n].args[1].cdp.edges) = 2
        /\ Len(script[n].args[1].hsrp.edges) = 1
        /\ Len(results[n].combined.edges) = 3
        /\ \A i \in 1..3 : results[n].combined.edges[i][4].link_type # "bgp"

\* Two graphs hold the same nodes with the same node_type and the same edges
\* with the same attributes, an edge being its two ends in either order, as
\* many times as it is held; the keys of parallel edges are not compared.
SameEdge(e, f) == {e[1], e[2]} = {f[1], f[2]} /\ e[4] = f[4]

Copies(G, e) == Cardinality({ i \in 1..Len(G.edges) : SameEdge(G.edges[i], e) })

SameGraph(G, H) ==
    /\ SeqToSet(G.nodes) = SeqToSet(H.nodes)
    /\ SeqToSet(G.attrs) = SeqToSet(H.attrs)
    /\ Len(G.edges) = Len(H.edges)
    /\ \A i \in 1..Len(G.edges) : Copies(G, G.edges[i]) = Copies(H, G.edges[i])

\* Records between the same two devices are repeats of one (source, target).
OnlyRepeats(l) ==
    \A i \in 1..Len(l), j \in 1..Len(l) :
        {l[i].source, l[i].target} = {l[j].source, l[j].target} =>
            l[i].source = l[j].source

\* A file with its edge records in the opposite order.
Reordered(file) == [ file EXCEPT !.edges = Reverse(@) ]

\* The visualizer object after the first n calls of the script, each loader
\* given its file with the edge records in the opposite order.
Reloaded(n) ==
    LET self[i \in 0..n] ==
            IF i = 0 THEN NetworkTopologyVisualizer
            ELSE IF script[i].op = "load_cdp_topology"
                 THEN load_cdp_topology(self[i - 1], Reordered(script[i].args[1]))
            ELSE IF script[i].op = "load_hsrp_topology"
                 THEN load_hsrp_topology(self[i - 1], Reordered(script[i].args[1]))
            ELSE load_bgp_topology(self[i - 1], Reordered(script[i].args[1]))
    IN  self[n]

\* C19: an edge list that cites the same (source, target, relation) more than
\* once, with different attributes, is loaded without failure, and the
\* combined graph, its edges and their attributes, is the same whatever the
\* order of the repeated records: by load_topology_data, and by the loaders
\* of NetworkTopologyVisualizer.
C19_DuplicateOrderIrrelevant ==
    /\ \A n \in LoadCalls :
          LET files == script[n].args[1]
          IN  (\A name \in DOMAIN files : OnlyRepeats(files[name].edges)) =>
                  SameGraph(results[n].combined,
                            load_topology_data(
                                [ name \in DOMAIN files |-> Reordered(files[name]) ]).combined)
    /\ (/\ Len(results) > 0
        /\ \A n \in 1..Len(results) :
              /\ script[n].op \in { LoaderOf(r) : r \in Relations }
              /\ OnlyRepeats(script[n].args[1].edges))
       => SameGraph(visualizer.combined_graph, Reloaded(Len(results)).combined_graph)

-----------------------------------------------------------------------------
(* The registry check, as a function.                                      *)

\* C24: validate_config returns True exactly when the positions with a z-layer
\* are the positions with a lane and every configured lane lies within
\* [LANE_MIN, LANE_MAX], False otherwise; it returns True for the shipped
\* tables.
C24_ValidateConfig ==
    \A n \in Calls("validate_config") :
        /\ results[n] \in BOOLEAN
        /\ results[n] <=>
              /\ Configured(registry.POSITION_TO_Z_LAYER) = Configured(registry.POSITION_TO_LANE)
              /\ \A p \in Configured(registry.POSITION_TO_LANE) :
                    ConfiguredValue(registry.POSITION_TO_LANE, p) \in LANE_MIN..LANE_MAX
        /\ registry = ShippedRegistry => results[n] = TRUE

\* validate_config answered False for tables whose lanes are all within the
\* bounds and where a position with a z-layer has no lane.
C24_Witness ==
    \E n \in Calls("validate_config") :
        /\ results[n] = FALSE
        /\ \A p \in Configured(registry.POSITION_TO_LANE) :
              ConfiguredValue(registry.POSITION_TO_LANE, p) \in LANE_MIN..LANE_MAX
        /\ <<"c","s","h">> \in Configured(registry.POSITION_TO_Z_LAYER)
                               \ Configured(registry.POSITION_TO_LANE)

-----------------------------------------------------------------------------
(* The shape of a parse result.                                            *)

TwoDigits(c) == c # None /\ Len(c) = 2 /\ IsDigit(c[1]) /\ IsDigit(c[2])

\* C28: every parse result is consistent in itself: parse_method is 'full',
\* 'type_count' or 'none'; valid is true exactly when it is not 'none'; with
\* 'full' the datacenter, position and type are members of the configured
\* vocabularies and the counter is two digits; with 'type_count' datacenter
\* and position are null, type and counter are not; with 'none' all four are
\* null.
C28_ResultConsistent ==
    \A n \in ParseCalls :
        LET r == results[n]
        IN  /\ r.parse_method \in {"full", "type_count", "none"}
            /\ r.valid <=> r.parse_method # "none"
            /\ r.parse_method = "full" =>
                  /\ r.datacenter \in SeqToSet(registry.DATACENTERS)
                  /\ r.position \in Configured(registry.POSITION_TO_Z_LAYER)
                  /\ r.type \in Configured(registry.TYPE_TO_ICON)
                  /\ TwoDigits(r.counter)
            /\ r.parse_method = "type_count" =>
                  /\ r.datacenter = None /\ r.position = None
                  /\ r.type # None /\ TwoDigits(r.counter)
            /\ r.parse_method = "none" =>
                  /\ r.datacenter = None /\ r.position = None
                  /\ r.type = None /\ r.counter = None

-----------------------------------------------------------------------------
(* The hostname field.                                                     *)

\* A str or None is lower-case: lower() leaves it as it is.
LowerCase(x) == x = None \/ lower(x) = x

-----------------------------------------------------------------------------
(* The two patterns on the configured vocabularies.                        *)

\* The ways the full pattern matches text c: the (datacenter, position, type)
\* entries of the configured vocabularies it can be split into, two digits
\* behind them.
Decompositions(c) ==
    UNION { UNION { { <<d, p, t>> :
                        t \in { y \in Configured(registry.TYPE_TO_ICON) :
                                  /\ LiteralAt(y, c, 1 + Len(d) + Len(p))
                                  /\ TwoDigitsToEnd(c, 1 + Len(d) + Len(p) + Len(y)) } } :
                    p \in { q \in Configured(registry.POSITION_TO_Z_LAYER) :
                              LiteralAt(q, c, 1 + Len(d)) } } :
            d \in { e \in SeqToSet(registry.DATACENTERS) : LiteralAt(e, c, 1) } }

\* The configured types that, with two digits behind them, are text c.
TypeCountForms(c) ==
    { t \in Configured(registry.TYPE_TO_ICON) :
        LiteralAt(t, c, 1) /\ TwoDigitsToEnd(c, 1 + Len(t)) }

\* What C27 asks of one parse result r, given the ways the two patterns fit.
UnambiguousAs(r, full, short) ==
    /\ Cardinality(full) <= 1
    /\ Cardinality(short) <= 1
    /\ full = {} \/ short = {}
    /\ \A dpt \in full :
          /\ r.parse_method = "full"
          /\ LiteralAt(dpt[1], r.datacenter, 1) /\ Len(r.datacenter) = Len(dpt[1])
          /\ LiteralAt(dpt[2], r.position, 1) /\ Len(r.position) = Len(dpt[2])
          /\ LiteralAt(dpt[3], r.type, 1) /\ Len(r.type) = Len(dpt[3])
    /\ full = {} =>
          \A t \in short :
              /\ r.parse_method = "type_count"
              /\ LiteralAt(t, r.type, 1) /\ Len(r.type) = Len(t)
    /\ full = {} /\ short = {} => r.parse_method = "none"

\* C27: under the shipped vocabularies, in either listing order, no parsed
\* hostname matches both the full pattern and the type+sequence pattern; a
\* hostname has at most one decomposition into a configured datacenter,
\* position and type plus two digits; and the parse result is that
\* decomposition: 'full' with segments of those lengths when there is one,
\* 'type_count' when only the short form fits, 'none' when neither does.
C27_Unambiguous ==
    \A n \in ParseCalls :
        registry \in {ShippedRegistry, ReorderedRegistry} =>
            UnambiguousAs(results[n],
                          Decompositions(Trimmed(script[n].args[1])),
                          TypeCountForms(Trimmed(script[n].args[1])))

\* Under the reordered registry 'UKPCLBLB02' was parsed: datacenter ukpc,
\* position lb, type lb, the one way to split it.
C27_Witness ==
    /\ registry = ReorderedRegistry
    /\ Len(results) = 1 /\ script[1].op = "parse"
    /\ script[1].args[1] = <<"U","K","P","C","L","B","L","B","0","2">>
    /\ Decompositions(Trimmed(script[1].args[1]))
          = { << <<"u","k","p","c">>, <<"l","b">>, <<"l","b">> >> }
    /\ results[1].parse_method = "full"
    /\ results[1].datacenter = <<"u","k","p","c">>
    /\ results[1].position = <<"l","b">>
    /\ results[1].type = <<"l","b">>

-----------------------------------------------------------------------------
(* HA pairs in the layout.                                                 *)

\* The coordinates of the nodes of the n-th layout as the buckets were placed,
\* before the HA offsets.
SubLayout(n) ==
    place_buckets(script[n].args[1],
                  nodes_by_layer_lane(node_info(script[n].args[1], script[n].args[2], 1)),
                  1, [ pos_3d |-> <<>>, np_random |-> 0, keys |-> <<>> ]).pos_3d

\* The nodes of S that are HA partners of v and sort after it, and before it.
PartnersAfter(S, v) == { w \in S : str_lt(v, w) /\ parser_are_ha_pair(v, w) }
PartnersBefore(S, v) == { w \in S : str_lt(w, v) /\ parser_are_ha_pair(w, v) }

\* The nodes of S, each with its parse result.
ParsedNodes(S) == { <<w, parse(w)>> : w \in S }

\* What C29 asks of one layout: its nodes that parse as type + sequence, its
\* result and its coordinates before the offsets.
TypeCountPaired(short, result, sub) ==
    \A c \in short, d \in short :
        ( /\ c[2].type = d[2].type
          /\ c[2].counter # d[2].counter
          /\ str_lt(c[1], d[1]) ) =>
            /\ c[2].datacenter = None /\ d[2].datacenter = None
            /\ c[2].position = None /\ d[2].position = None
            /\ parser_are_ha_pair(c[1], d[1]) /\ parser_are_ha_pair(d[1], c[1])
            /\ find_ha_pairs(<<d[1], c[1]>>) = << <<c[1], d[1]>> >>
            /\ PartnersAfter(DOMAIN result, c[1]) = {d[1]}
               /\ PartnersBefore(DOMAIN result, d[1]) = {c[1]} =>
                  /\ result[c[1]][2] = sub[c[1]][2] - HA_PAIR_OFFSET
                  /\ result[d[1]][2] = sub[d[1]][2] + HA_PAIR_OFFSET

\* C29: two hostnames of the type+sequence form with the same type and
\* different counters are an HA pair for are_ha_pair and for find_ha_pairs
\* (their datacenter and position are both None, and None equals None), and
\* in a layout that holds both, and no further partner of them, the one that
\* sorts first lies HA_PAIR_OFFSET below its sub-layout y and the other
\* HA_PAIR_OFFSET above.
C29_TypeCountPairs ==
    \A n \in LayoutCalls :
        TypeCountPaired({ c \in ParsedNodes(DOMAIN results[n]) :
                            c[2].parse_method = "type_count" },
                        results[n], SubLayout(n))

\* 'sr01' and 'sr02' were laid out with an access switch in their bucket: they
\* were placed by the sub-layout and then moved apart as an HA pair.
C29_Witness ==
    \E n \in LayoutCalls :
        LET a == <<"s","r","0","1">>
            b == <<"s","r","0","2">>
        IN  /\ {a, b} \subseteq DOMAIN results[n]
            /\ <<"n","p","c","a","c","c","s","w","0","1">> \in DOMAIN results[n]
            /\ parser_are_ha_pair(a, b)
            /\ results[n][a][2] = SubLayout(n)[a][2] - HA_PAIR_OFFSET
            /\ results[n][b][2] = SubLayout(n)[b][2] + HA_PAIR_OFFSET
            /\ results[n][a][1] = 0 /\ results[n][a][3] = 15


\* The nodes of the n-th result, each with its <<lane, z-layer>> and its
\* parse result.
ClassifiedParsed(n) ==
    { <<v, ClassifiedAs(script[n].args[1], v, p), p>> :
        <<v, p>> \in { <<w, parse(w)>> : w \in DOMAIN results[n] } }

\* What C26 asks of one layout: its nodes as classified and parsed, its
\* result and its coordinates before the offsets.
PartnersShare(nodes, result, sub) ==
    \A c \in nodes, d \in nodes :
        parsed_are_ha_pair(c[3], d[3]) =>
            /\ c[2] = d[2]
            /\ c[1] # d[1]
            /\ result[c[1]][1] = result[d[1]][1]
            /\ result[c[1]][3] = result[d[1]][3]
            /\ sub[c[1]][1] = sub[d[1]][1]
            /\ sub[c[1]][3] = sub[d[1]][3]

\* C26: two nodes of a layout that are an HA pair have the same classified
\* z-layer and lane, so they are in one bucket of at least those two nodes:
\* they have equal x and equal z in the result, as they had before the
\* offsets.
C26_PartnersShareBucket ==
    \A n \in LayoutCalls :
        PartnersShare(ClassifiedParsed(n), results[n], SubLayout(n))

\* The 'csh' switches 01 and 02 were laid out beside a 'dc' router under the
\* registry with wide lanes: both at the x of lane 10 and at z 0.
C26_Witness ==
    \E n \in LayoutCalls :
        LET a == <<"n","p","c","c","s","h","s","w","0","1">>
            b == <<"n","p","c","c","s","h","s","w","0","2">>
        IN  /\ registry = WideLaneRegistry
            /\ {a, b} \subseteq DOMAIN results[n]
            /\ Cardinality(DOMAIN results[n]) = 3
            /\ parser_are_ha_pair(a, b)
            /\ results[n][a][1] = 10 * LANE_WIDTH /\ results[n][b][1] = 10 * LANE_WIDTH
            /\ results[n][a][3] = 0 /\ results[n][b][3] = 0
            /\ results[n][a][2] # results[n][b][2]


\* The place of v among the nodes S, all of them HA partners of each other, in
\* sorted order: 1 for the first.
RankIn(S, v) == Cardinality({ w \in S : str_lt(w, v) }) + 1

\* The HA pairs among the nodes S, each as <<first, second>> in sorted order.
PairsAmong(S) ==
    LET parsed == ParsedNodes(S)
    IN  { <<ab[1][1], ab[2][1]>> :
            ab \in { cd \in parsed \X parsed :
                       /\ str_lt(cd[1][1], cd[2][1])
                       /\ parsed_are_ha_pair(cd[1][2], cd[2][2]) } }

\* What C25 asks of one layout: its result, its coordinates before the
\* offsets and the HA pairs among its nodes.
OffsetsOnlyY(result, sub, pairs) ==
    /\ DOMAIN result = DOMAIN sub
    /\ \A v \in DOMAIN result :
          LET after == { q[2] : q \in { r \in pairs : r[1] = v } }
              before == { q[1] : q \in { r \in pairs : r[2] = v } }
              mates == after \cup before \cup {v}
          IN  /\ result[v][1] = sub[v][1]
              /\ result[v][3] = sub[v][3]
              /\ result[v][2] = sub[v][2]
                    + HA_PAIR_OFFSET * (Cardinality(before) - Cardinality(after))
              /\ after \cup before = {} => result[v] = sub[v]
              /\ (\A a \in mates : \A b \in mates \ {a} :
                      <<a, b>> \in pairs \/ <<b, a>> \in pairs) =>
                    result[v][2] - sub[v][2]
                       = (2 * RankIn(mates, v) - Cardinality(mates) - 1) * HA_PAIR_OFFSET

\* C25: the HA offset moves y alone. The final y of a node is its sub-layout
\* y plus HA_PAIR_OFFSET times (the pairs it is the second of minus the pairs
\* it is the first of, in sorted order); its x and z are those of the
\* sub-layout; a node in no pair is where the sub-layout put it; and the i-th
\* of n nodes that all pair with each other is moved by
\* (2i - n - 1) * HA_PAIR_OFFSET.
C25_OffsetMovesOnlyY ==
    \A n \in LayoutCalls :
        OffsetsOnlyY(results[n], SubLayout(n), PairsAmong(DOMAIN results[n]))

\* Three 'co' routers of one datacenter were laid out with a link between the
\* last two: 01 moved down by two offsets, 02 stayed, 03 moved up by two, each
\* from a sub-layout y of its own, x and z as placed.
C25_Witness ==
    \E n \in LayoutCalls :
        LET a == <<"n","p","c","c","o","s","r","0","1">>
            b == <<"n","p","c","c","o","s","r","0","2">>
            c == <<"n","p","c","c","o","s","r","0","3">>
            sub == SubLayout(n)
        IN  /\ DOMAIN results[n] = {a, b, c}
            /\ script[n].args[1].edges # <<>>
            /\ results[n][a][2] = sub[a][2] - 2 * HA_PAIR_OFFSET
            /\ results[n][b][2] = sub[b][2]
            /\ results[n][c][2] = sub[c][2] + 2 * HA_PAIR_OFFSET
            /\ sub[b][2] # 0
            /\ results[n][a][1] = sub[a][1] /\ results[n][a][3] = 35

-----------------------------------------------------------------------------
(* The node_type attribute.                                                *)

\* The z-layer the legacy map gives a node_type, in tenths.
LegacyZ(t) ==
    IF t = <<"r","o","u","t","e","r">> THEN 40
    ELSE IF t = <<"c","o","r","e">> THEN 35
    ELSE IF t = <<"d","i","s","t","r","i","b","u","t","i","o","n">> THEN 25
    ELSE 15

\* The nodes of graph g that do not classify, each with its node_type.
Unclassified(g) ==
    { <<v, dict_get(g.attrs, v, unknown)>> :
        v \in { w \in SeqToSet(g.nodes) : ~parse(w).valid } }

\* The layouts up to the latest, each with its graph's nodes and edges, its
\* filter, its unclassified nodes and its result.
LayoutsRun ==
    { [ call |-> n,
        nodes |-> script[n].args[1].nodes,
        edges |-> script[n].args[1].edges,
        filter |-> script[n].args[2],
        unclassified |-> Unclassified(script[n].args[1]),
        result |-> results[n] ] : n \in LayoutCalls }

\* What C23 asks of the layouts run.
FallbackOnly(runs) ==
    /\ \A r \in runs :
          \A vt \in r.unclassified :
              vt[1] \in DOMAIN r.result =>
                  /\ r.result[vt[1]][1] = 0
                  /\ r.result[vt[1]][3] = LegacyZ(vt[2])
    /\ \A r \in runs, q \in runs :
          ( /\ r.call < q.call
            /\ r.nodes = q.nodes /\ r.edges = q.edges /\ r.filter = q.filter
            /\ r.unclassified = q.unclassified ) =>
              r.result = q.result

\* C23: the node_type attribute is read for a node whose hostname does not
\* classify, and for no other. Such a node is placed in lane 0 (x = 0) on the
\* z-layer 4.0, 3.5, 2.5 or 1.5 of router, core, distribution or access, and
\* on 1.5 with any other node_type; and two layouts of graphs with the same
\* nodes, edges and filter, whose node_types agree on the nodes that do not
\* classify, are equal whatever node_types the classified nodes carry.
C23_NodeTypeIsFallback == FallbackOnly(LayoutsRun)

\* The chain was laid out twice, the second time with node_type 'router' on
\* the core router and on sr01: 'xx01', a 'core' by node_type both times, is on
\* z 3.5 in the bucket of the core router, which is on z 3.5 by its name; the
\* two results are equal.
C23_Witness ==
    /\ Len(results) = 2
    /\ script[1].args[1].nodes = script[2].args[1].nodes
    /\ dict_get(script[1].args[1].attrs, <<"n","p","c","c","o","s","r","0","1">>, None) = None
    /\ dict_get(script[2].args[1].attrs, <<"n","p","c","c","o","s","r","0","1">>, None)
          = <<"r","o","u","t","e","r">>
    /\ dict_get(script[2].args[1].attrs, <<"x","x","0","1">>, None) = <<"c","o","r","e">>
    /\ <<"x","x","0","1">> \in DOMAIN results[2]
    /\ results[2][<<"x","x","0","1">>][3] = 35
    /\ results[2][<<"n","p","c","c","o","s","r","0","1">>][3] = 35
    /\ results[2][<<"n","p","c","c","o","s","r","0","1">>][2] # 0
    /\ results[1] = results[2]

-----------------------------------------------------------------------------
(* The datacenter filter.                                                  *)

\* The datacenter node v of graph g classifies into: that of its parse result,
\* None when the name does not classify.
DatacenterOf(v) == IF parse(v).valid THEN parse(v).datacenter ELSE None

\* What C22 asks of one layout.
FilteredTo(nodes, filter, result) ==
    IF filter = None \/ filter = <<>>
    THEN DOMAIN result = nodes
    ELSE /\ DOMAIN result = { v \in nodes : DatacenterOf(v) = filter }
         /\ \A v \in nodes : DatacenterOf(v) = None => v \notin DOMAIN result

\* C22: with a datacenter filter d the result holds exactly the nodes of the
\* graph whose classified datacenter is d; a node without a datacenter (named
\* by type and sequence, or not classified) is in the result of the unfiltered
\* layout only.
C22_FilterByDatacenter ==
    \A n \in LayoutCalls :
        FilteredTo(SeqToSet(script[n].args[1].nodes), script[n].args[2], results[n])

\* The fleet was laid out unfiltered and then for 'npc': the second result
\* holds the three npc devices and neither the wpc switch nor 'xx01' and
\* 'edge', which the first result holds.
C22_Witness ==
    /\ Len(results) >= 2
    /\ script[1].args[2] = None /\ script[2].args[2] = <<"n","p","c">>
    /\ script[1].args[1] = script[2].args[1]
    /\ DOMAIN results[2] = { <<"n","p","c","c","o","s","r","0","1">>,
                             <<"n","p","c","c","o","s","r","0","2">>,
                             <<"n","p","c","a","c","c","s","w","0","1">> }
    /\ { <<"x","x","0","1">>, <<"e","d","g","e">>,
         <<"w","p","c","a","c","c","s","w","1","1">> } \subseteq DOMAIN results[1]

-----------------------------------------------------------------------------
(* Buckets.                                                                *)

\* The layouts up to the latest, each with its graph, its result and the
\* nodes of the result with their <<lane, z-layer>>.
BucketsRun ==
    { [ call |-> n, graph |-> script[n].args[1], result |-> results[n],
        classified |-> Classified(n) ] : n \in LayoutCalls }

\* The members of bucket k in a layout run, in the order of the graph, and the
\* edges of the graph with both ends in the bucket.
MembersOf(run, k) ==
    SelectSeq(run.graph.nodes, LAMBDA v : <<v, k>> \in run.classified)

EdgesInside(run, k) ==
    SelectSeq(run.graph.edges,
              LAMBDA e : <<e[1], k>> \in run.classified /\ <<e[2], k>> \in run.classified)

\* What C21 asks of the layouts run.
BucketsAlike(runs) ==
    \A r \in runs, q \in runs :
        r.call < q.call =>
            \A k \in { c[2] : c \in r.classified } :
                ( /\ MembersOf(r, k) = MembersOf(q, k)
                  /\ EdgesInside(r, k) = EdgesInside(q, k) ) =>
                    \A v \in SeqToSet(MembersOf(r, k)) : r.result[v] = q.result[v]

\* C21: buckets are laid out independently. When a (z-layer, lane) bucket has
\* the same members, in the same order of the graph, and the same edges inside
\* it in two layouts, its members have the same coordinates in both results,
\* whatever nodes the other buckets hold and whatever edges leave the bucket.
\* The code hands the bucket to spring_layout as graph.subgraph(nodes), a view
\* that networkx iterates in the order of the graph or in the order of a set
\* of str depending on the size of the whole graph, so a bucket of a grown
\* graph can be laid out in another node order.
C21_BucketsIndependent == BucketsAlike(BucketsRun)

=============================================================================
